---------------------------- MODULE Spec2Model ----------------------------
(***************************************************************************)
(* Model of the runtime core of the trading terminal:                      *)
(*   - EventDispatcher  (src-tauri/src/core/dispatcher.rs), a thin wrapper *)
(*     around tokio::sync::broadcast;                                      *)
(*   - AppState         (src-tauri/src/core/state.rs);                     *)
(*   - StopLossModule   (src-tauri/src/modules/stop_loss.rs).              *)
(*                                                                         *)
(* The broadcast channel is modelled as tokio implements it: a ring of     *)
(* slots, each stamped with the position of the value it holds, one tail   *)
(* position, a receiver count, and one cursor per receiver.  send,         *)
(* subscribe, recv and the drop of a receiver each run under the channel's *)
(* tail lock and are therefore one step each.                              *)
(***************************************************************************)
EXTENDS Integers, Sequences, FiniteSets, TLC

(* ------------------------------ bounds -------------------------------- *)
MaxCapacity == 3
MaxPublish == 5
MaxCalls == 3
MaxTicks == 2
MaxResponses == 2
MaxClock == 2

(* ------------------------------ values -------------------------------- *)
None == "None"

Receivers == {"rx1", "rx2"}
Producers == {"dispatcher", "clone"}
DirectKinds == {"AlarmTriggered"}
StateReceiver == "rx1"
Tasks == {"t1", "t2"}
Symbols == {"BTCUSDT", "ETHUSDT"}
Prices == {100}
ModuleIds == {"stop_loss", "risk_calculator"}
Sides == {"Long", "Short"}
EntryPrices == {100}
StopPrices == {95, 105}
TickPrices == {95, 100, 104, 105}

\* StandardTick; timestamp stands for the fields that tell two ticks of the
\* same symbol and price apart.
StandardTick(symbol, price, timestamp) ==
    [symbol |-> symbol, price |-> price, timestamp |-> timestamp]

NoTick == StandardTick("", 0, 0)

\* AppEvent: the variant and its fields; a field the variant does not have
\* holds its default.  id is alarm_id / position_id.
AppEvent(kind, id, tick, module_id, is_active) ==
    [kind |-> kind, id |-> id, tick |-> tick, module_id |-> module_id,
     is_active |-> is_active]

DirectEvent(kind, id) == AppEvent(kind, id, NoTick, "", FALSE)

\* An empty slot of the ring (Option::None).
NoEvent == AppEvent("None", 0, NoTick, "", FALSE)

VARIABLES
    capacity,   \* the capacity EventDispatcher::new was called with
    buffer,     \* the channel's ring: slot index -> [pos, val]
    tailPos,    \* position the next sent value gets
    rxCnt,      \* the channel's count of live receivers
    rx,         \* receiver -> [status, next, from]: its cursor, and how many
                \* publish calls had taken effect when it was created
    received,   \* receiver -> what its recv calls returned, in order
    sent,       \* every publish call, in the order they took effect
    live_prices,     \* AppState.live_prices: HashMap symbol -> tick
    active_modules,  \* AppState.active_modules: HashMap module id -> bool
    task,       \* task -> the AppState call it is in and the next statement
    writes,     \* every write to live_prices and active_modules, in order
    calls,      \* number of AppState calls started
    positions,  \* AppState.positions: Vec<Position>
    module,     \* the StopLossModule's fields
    life,       \* whether initialize and shutdown have been called on it, and
                \* whether an initialize came right after a tick that failed
    signals,    \* the trigger signals the module has emitted, in order
    posReads,   \* how often the module took the read lock of positions
    ret,        \* the module operation called last and what it returned
    ticks,      \* number of on_price_tick calls
    kl,         \* the get_all_klines call: where it is and what it holds
    cl,         \* the BybitClients, the clock, and the last call on each client
    vault,      \* the SecureVault, the last call on it, and what was stored in clear
    locks,      \* the RwLocks of AppState's fields and the tasks that take them
    cmd         \* the statics of the commands and the tasks that run commands

busVars == <<capacity, buffer, tailPos, rxCnt, rx, received, sent>>
stateVars == <<live_prices, active_modules, task, writes, calls>>
moduleVars == <<module, life, signals, posReads, ret, ticks>>
exchangeVars == <<kl, cl>>
sideVars == <<vault, locks, cmd>>
vars == <<busVars, stateVars, positions, moduleVars, exchangeVars, sideVars>>

(* -------------------------- EventDispatcher --------------------------- *)
RECURSIVE next_power_of_two(_)
next_power_of_two(n) == IF n <= 1 THEN 1 ELSE 2 * next_power_of_two((n + 1) \div 2)

\* broadcast::channel(capacity): the ring holds capacity rounded up to a
\* power of two slots; slot i starts stamped i - len, "not written yet".
channel_len(cap) == next_power_of_two(cap)

BufLen == channel_len(capacity)

channel_buffer(cap) ==
    [i \in 0..(channel_len(cap) - 1) |-> [pos |-> i - channel_len(cap), val |-> NoEvent]]

SlotOf(pos) == pos % BufLen

\* Sender::send under the tail lock: with no receiver the value is handed
\* back in the error and the ring is untouched.
send_result(cnt) == IF cnt = 0 THEN [tag |-> "Err"] ELSE [tag |-> "Ok", n |-> cnt]

send_buffer(buf, pos, cnt, ev) ==
    IF cnt = 0 THEN buf
    ELSE [buf EXCEPT ![SlotOf(pos)] = [pos |-> pos, val |-> ev]]

send_tail(pos, cnt) == IF cnt = 0 THEN pos ELSE pos + 1

AliveSet == {r \in Receivers : rx[r].status = "alive"}

publish(prod, ev) ==
    /\ buffer' = send_buffer(buffer, tailPos, rxCnt, ev)
    /\ tailPos' = send_tail(tailPos, rxCnt)
    /\ sent' = Append(sent, [ev |-> ev, res |-> send_result(rxCnt), rxs |-> AliveSet])
    /\ UNCHANGED <<capacity, rxCnt, rx, received>>

\* Mutant: a new receiver starts one value before the tail (replay).
subscribe_next_Replay(pos) == IF pos > 0 THEN pos - 1 ELSE 0

\* Sender::subscribe: one more receiver, its cursor at the tail.
subscribe_next(pos) == pos

subscribe(r) ==
    /\ rx[r].status = "none"
    /\ rxCnt' = rxCnt + 1
    /\ rx' = [rx EXCEPT ![r] = [status |-> "alive", next |-> subscribe_next(tailPos),
                                 from |-> Len(sent)]]
    /\ UNCHANGED <<capacity, buffer, tailPos, received, sent>>

\* Mutant: a value read leaves the cursor where it was.
recv_outcome_NoAdvance(buf, tail, len, next) ==
    LET slot == buf[next % len] IN
    IF slot.pos = next
    THEN [tag |-> "Ok", val |-> slot.val, next |-> next]
    ELSE IF slot.pos + len = next
    THEN [tag |-> "Empty", next |-> next]
    ELSE [tag |-> "Lagged", n |-> tail - len - next, next |-> tail - len]

\* Mutant: the slot's stamp is not compared with the cursor.
recv_outcome_NoStamp(buf, tail, len, next) ==
    LET slot == buf[next % len] IN
    IF slot.pos >= 0 /\ next < tail
    THEN [tag |-> "Ok", val |-> slot.val, next |-> next + 1]
    ELSE [tag |-> "Empty", next |-> next]

\* Mutant: a receiver that lagged resumes at the newest value.
recv_outcome_ResumeNewest(buf, tail, len, next) ==
    LET slot == buf[next % len] IN
    IF slot.pos = next
    THEN [tag |-> "Ok", val |-> slot.val, next |-> next + 1]
    ELSE IF slot.pos + len = next
    THEN [tag |-> "Empty", next |-> next]
    ELSE [tag |-> "Lagged", n |-> tail - 1 - next, next |-> tail - 1]

\* Receiver::try_recv / recv: the slot under the cursor holds the value
\* wanted, or is not written yet (empty: recv waits), or was overwritten
\* (lagged: the cursor jumps to the oldest value still in the ring).
recv_outcome(buf, tail, len, next) ==
    LET slot == buf[next % len] IN
    IF slot.pos = next
    THEN [tag |-> "Ok", val |-> slot.val, next |-> next + 1]
    ELSE IF slot.pos + len = next
    THEN [tag |-> "Empty", next |-> next]
    ELSE LET oldest == tail - len
             missed == oldest - next
         IN  IF missed = 0
             THEN [tag |-> "Ok", val |-> slot.val, next |-> next + 1]
             ELSE [tag |-> "Lagged", n |-> missed, next |-> oldest]

RecvItem(out) ==
    IF out.tag = "Ok" THEN [tag |-> "Ok", val |-> out.val]
    ELSE [tag |-> "Lagged", n |-> out.n]

recv(r) ==
    /\ rx[r].status = "alive"
    /\ LET out == recv_outcome(buffer, tailPos, BufLen, rx[r].next) IN
       /\ out.tag # "Empty"
       /\ rx' = [rx EXCEPT ![r].next = out.next]
       /\ received' = [received EXCEPT ![r] = Append(@, RecvItem(out))]
    /\ UNCHANGED <<capacity, buffer, tailPos, rxCnt, sent>>

\* Mutant: a dropped receiver is still counted.
drop_count_Keep(cnt) == cnt

\* Drop of a Receiver: the receiver count goes down by one.
drop_count(cnt) == cnt - 1

drop_receiver(r) ==
    /\ rx[r].status = "alive"
    /\ rxCnt' = drop_count(rxCnt)
    /\ rx' = [rx EXCEPT ![r].status = "dropped"]
    /\ UNCHANGED <<capacity, buffer, tailPos, received, sent>>

(* ----------------------------- bus spec ------------------------------- *)
\* EventDispatcher::new(capacity): `let (sender, _) = channel(capacity)`
\* drops the channel's first receiver at once, so a new dispatcher has none.
new(cap) ==
    /\ capacity = cap
    /\ buffer = channel_buffer(cap)
    /\ tailPos = 0
    /\ rxCnt = 0
    /\ rx = [r \in Receivers |-> [status |-> "none", next |-> 0, from |-> 0]]
    /\ received = [r \in Receivers |-> <<>>]
    /\ sent = <<>>


\* What a step of the dispatcher leaves alone.
BusFrame == UNCHANGED <<live_prices, active_modules, task, writes, calls, positions,
                        module, life, signals, posReads, ret, ticks, exchangeVars, sideVars>>

Publish ==
    /\ Len(sent) < MaxPublish
    /\ \E prod \in Producers, kind \in DirectKinds :
          publish(prod, DirectEvent(kind, Len(sent) + 1))
    /\ BusFrame

Subscribe == (\E r \in Receivers : subscribe(r)) /\ BusFrame

Recv == (\E r \in Receivers : recv(r)) /\ BusFrame

DropReceiver == (\E r \in Receivers : drop_receiver(r)) /\ BusFrame

(* ------------------------------ AppState ------------------------------ *)
Call(op, serial, tick, module_id, is_active) ==
    [op |-> op, serial |-> serial, tick |-> tick, module_id |-> module_id,
     is_active |-> is_active]

NoCall == Call("none", 0, NoTick, "", FALSE)

\* HashMap::new.
HashMap_new == [k \in {} |-> 0]

\* AppState::new: empty maps and EventDispatcher::default(); the model takes
\* the default capacity from its bound.
AppState_new(cap) ==
    /\ new(cap)
    /\ live_prices = HashMap_new
    /\ active_modules = HashMap_new
    /\ task = [t \in Tasks |-> [pc |-> 0, call |-> NoCall, last |-> NoCall]]
    /\ writes = <<>>
    /\ calls = 0
    /\ positions = <<>>

\* Mutant: an entry that exists is kept.
insert_KeepOld(map, key, value) ==
    IF key \in DOMAIN map THEN map
    ELSE [k \in DOMAIN map \cup {key} |-> IF k = key THEN value ELSE map[k]]

\* HashMap::insert: the entry of the key is replaced or created.
insert(map, key, value) ==
    [k \in DOMAIN map \cup {key} |-> IF k = key THEN value ELSE map[k]]

\* Mutant: the event is published before the map is written.
update_price_stmts_PublishFirst == <<"publish_price", "insert_price">>

\* Mutant: the event is published before the map is written.
set_module_active_stmts_PublishFirst == <<"publish_module", "insert_module">>

\* The statements of update_price and of set_module_active, in program
\* order: the map write inside the block that holds the write lock, then the
\* publish after the block has released it.
update_price_stmts == <<"insert_price", "publish_price">>

set_module_active_stmts == <<"insert_module", "publish_module">>

StmtsOf(op) ==
    IF op = "update_price" THEN update_price_stmts ELSE set_module_active_stmts

EventOf(c) ==
    IF c.op = "update_price"
    THEN AppEvent("PriceUpdated", c.serial, c.tick, "", FALSE)
    ELSE AppEvent("ModuleStateChanged", c.serial, NoTick, c.module_id, c.is_active)

\* One statement of a call.
Stmt(stmt, c) ==
    CASE stmt = "insert_price" ->
            /\ live_prices' = insert(live_prices, c.tick.symbol, c.tick)
            /\ writes' = Append(writes, c)
            /\ UNCHANGED <<active_modules, busVars>>
      [] stmt = "insert_module" ->
            /\ active_modules' = insert(active_modules, c.module_id, c.is_active)
            /\ writes' = Append(writes, c)
            /\ UNCHANGED <<live_prices, busVars>>
      [] stmt \in {"publish_price", "publish_module"} ->
            /\ publish("dispatcher", EventOf(c))
            /\ UNCHANGED <<live_prices, active_modules, writes>>

\* A task enters a call and runs its first statement.
Begin(t, c) ==
    /\ task[t].pc = 0
    /\ calls < MaxCalls
    /\ calls' = calls + 1
    /\ Stmt(StmtsOf(c.op)[1], c)
    /\ task' = [task EXCEPT ![t].pc = 2, ![t].call = c]

\* A task runs the second statement of its call and returns.
Finish(t) ==
    /\ task[t].pc = 2
    /\ Stmt(StmtsOf(task[t].call.op)[2], task[t].call)
    /\ task' = [task EXCEPT ![t] = [pc |-> 0, call |-> NoCall, last |-> task[t].call]]
    /\ UNCHANGED calls

update_price(t, tick) == Begin(t, Call("update_price", calls + 1, tick, "", FALSE))

set_module_active(t, module_id, is_active) ==
    Begin(t, Call("set_module_active", calls + 1, NoTick, module_id, is_active))

\* AppState::get_price: a copy of the entry, None (NoTick) when absent.
get_price(symbol) ==
    IF symbol \in DOMAIN live_prices THEN live_prices[symbol] ELSE NoTick

\* AppState::is_module_active: the entry, false when absent.
is_module_active(module_id) ==
    IF module_id \in DOMAIN active_modules THEN active_modules[module_id] ELSE FALSE

(* --------------------------- StopLossModule --------------------------- *)
\* Option<f64>.
Some(v) == [some |-> TRUE, v |-> v]

NoneF == [some |-> FALSE, v |-> 0]

Position(id, symbol, side, entry_price, stop_loss) ==
    [id |-> id, symbol |-> symbol, side |-> side, entry_price |-> entry_price,
     stop_loss |-> stop_loss]

\* StopLossModule::new.
StopLossModule_new ==
    [is_active |-> FALSE, state |-> None, auto_breakeven |-> TRUE,
     breakeven_threshold |-> 1]

Abs(x) == IF x < 0 THEN -x ELSE x

\* Mutant: a price exactly one risk away from the entry does not count.
check_breakeven_Strict(m, position, current_price) ==
    LET entry == position.entry_price
        stop == IF position.stop_loss.some THEN position.stop_loss.v ELSE entry
        risk == Abs(entry - stop)
    IN  IF position.side = "Long"
        THEN current_price > entry + (risk * m.breakeven_threshold)
        ELSE current_price < entry - (risk * m.breakeven_threshold)

\* StopLossModule::check_breakeven.
check_breakeven(m, position, current_price) ==
    LET entry == position.entry_price
        stop == IF position.stop_loss.some THEN position.stop_loss.v ELSE entry
        risk == Abs(entry - stop)
    IN  IF position.side = "Long"
        THEN current_price >= entry + (risk * m.breakeven_threshold)
        ELSE current_price <= entry - (risk * m.breakeven_threshold)

should_close(position, price) ==
    /\ position.stop_loss.some
    /\ IF position.side = "Long" THEN price <= position.stop_loss.v
       ELSE price >= position.stop_loss.v

Signal(kind, position, price) == [kind |-> kind, position |-> position.id, price |-> price]

\* Mutant: a position raises each kind of signal once, the module remembering
\* what it raised on earlier ticks.
position_signals_Once(m, position, tick) ==
    LET raised(kind) ==
            \E j \in DOMAIN signals :
                signals[j].kind = kind /\ signals[j].position = position.id
    IN  IF position.symbol = tick.symbol
        THEN (IF m.auto_breakeven /\ check_breakeven(m, position, tick.price)
                 /\ ~raised("breakeven")
              THEN <<Signal("breakeven", position, tick.price)>> ELSE <<>>)
             \o
             (IF should_close(position, tick.price) /\ ~raised("stop_loss")
              THEN <<Signal("stop_loss", position, tick.price)>> ELSE <<>>)
        ELSE <<>>

\* Mutant: the stop is looked at only when the breakeven check did not fire.
position_signals_ElseIf(m, position, tick) ==
    IF position.symbol = tick.symbol
    THEN IF m.auto_breakeven /\ check_breakeven(m, position, tick.price)
         THEN <<Signal("breakeven", position, tick.price)>>
         ELSE IF should_close(position, tick.price)
         THEN <<Signal("stop_loss", position, tick.price)>>
         ELSE <<>>
    ELSE <<>>

\* The body of the loop for one position.
position_signals(m, position, tick) ==
    IF position.symbol = tick.symbol
    THEN (IF m.auto_breakeven /\ check_breakeven(m, position, tick.price)
          THEN <<Signal("breakeven", position, tick.price)>> ELSE <<>>)
         \o
         (IF should_close(position, tick.price)
          THEN <<Signal("stop_loss", position, tick.price)>> ELSE <<>>)
    ELSE <<>>

RECURSIVE loop_signals(_, _, _)
loop_signals(m, ps, tick) ==
    IF ps = <<>> THEN <<>>
    ELSE position_signals(m, Head(ps), tick) \o loop_signals(m, Tail(ps), tick)

\* Mutant: the callback does not look at the active flag.
on_price_tick_outcome_NoGate(m, ps, tick) ==
    IF m.state = None
    THEN [result |-> "InitializationFailed", reads |-> 0, signals |-> <<>>]
    ELSE [result |-> "Ok", reads |-> 1, signals |-> loop_signals(m, ps, tick)]

\* Mutant: a module without its state handle answers Ok.
on_price_tick_outcome_OkWithoutState(m, ps, tick) ==
    IF ~m.is_active \/ m.state = None
    THEN [result |-> "Ok", reads |-> 0, signals |-> <<>>]
    ELSE [result |-> "Ok", reads |-> 1, signals |-> loop_signals(m, ps, tick)]

\* on_price_tick: what it returns, how often it takes the read lock of
\* positions, and the signals it emits.
on_price_tick_outcome(m, ps, tick) ==
    IF ~m.is_active
    THEN [result |-> "Ok", reads |-> 0, signals |-> <<>>]
    ELSE IF m.state = None
    THEN [result |-> "InitializationFailed", reads |-> 0, signals |-> <<>>]
    ELSE [result |-> "Ok", reads |-> 1, signals |-> loop_signals(m, ps, tick)]

Ret(op, result, tick) == [op |-> op, result |-> result, tick |-> tick]

on_price_tick(tick) ==
    /\ ticks < MaxTicks
    /\ ticks' = ticks + 1
    /\ LET out == on_price_tick_outcome(module, positions, tick) IN
       /\ ret' = Ret("on_price_tick", out.result, tick)
       /\ posReads' = posReads + out.reads
       /\ signals' = signals \o out.signals
    /\ UNCHANGED <<module, life, positions, busVars, stateVars, exchangeVars, sideVars>>

initialize ==
    /\ module' = [module EXCEPT !.state = "AppState"]
    /\ life' = [life EXCEPT !.initialized = TRUE,
                           !.recovered = @ \/ ret.result = "InitializationFailed"]
    /\ ret' = Ret("initialize", "Ok", NoTick)
    /\ UNCHANGED <<signals, posReads, ticks, positions, busVars, stateVars, exchangeVars, sideVars>>

shutdown ==
    /\ module' = [module EXCEPT !.state = None]
    /\ life' = [life EXCEPT !.shut = TRUE]
    /\ ret' = Ret("shutdown", "Ok", NoTick)
    /\ UNCHANGED <<signals, posReads, ticks, positions, busVars, stateVars, exchangeVars, sideVars>>

set_active(active) ==
    /\ module' = [module EXCEPT !.is_active = active]
    /\ ret' = Ret(IF active THEN "set_active(true)" ELSE "set_active(false)", "Ok", NoTick)
    /\ UNCHANGED <<life, signals, posReads, ticks, positions, busVars, stateVars,
                   exchangeVars, sideVars>>

\* on_balance_change: the module does not follow balances.
on_balance_change(symbol, new_balance) ==
    /\ ret' = Ret("on_balance_change", "Ok", NoTick)
    /\ UNCHANGED <<module, life, signals, posReads, ticks, positions, busVars, stateVars,
                   exchangeVars, sideVars>>

\* on_position_opened: the line "position tracked" is logged.
on_position_opened(position) ==
    /\ signals' = Append(signals, Signal("position_tracked", position, 0))
    /\ ret' = Ret("on_position_opened", "Ok", NoTick)
    /\ UNCHANGED <<module, life, posReads, ticks, positions, busVars, stateVars,
                   exchangeVars, sideVars>>

\* on_position_closed: the line "position closed" is logged with the PnL.
on_position_closed(position, pnl) ==
    /\ signals' = Append(signals, Signal("position_closed", position, pnl))
    /\ ret' = Ret("on_position_closed", "Ok", NoTick)
    /\ UNCHANGED <<module, life, posReads, ticks, positions, busVars, stateVars,
                   exchangeVars, sideVars>>

(* ----------------------------- BybitClient ---------------------------- *)
\* An i64 count of milliseconds, kept as whole minutes and the milliseconds
\* beyond them (0..59999): epoch milliseconds of this decade do not fit the
\* integers of the model checker, every interval of the table below is a
\* whole number of minutes, and the arithmetic below is exact.
MsPerMinute == 60000

Ms(min, ms) == [min |-> min, ms |-> ms]

Norm(min, ms) == Ms(min + (ms \div MsPerMinute), ms % MsPerMinute)

Minus(a, b) == Norm(a.min - b.min, a.ms - b.ms)

Plus(a, b) == Norm(a.min + b.min, a.ms + b.ms)

Lt(a, b) == a.min < b.min \/ (a.min = b.min /\ a.ms < b.ms)

Le(a, b) == a.min < b.min \/ (a.min = b.min /\ a.ms <= b.ms)

MaxT(a, b) == IF Lt(a, b) THEN b ELSE a

Zero == Ms(0, 0)

OneMs == Ms(0, 1)

\* Option<i64>.
NoneT == [some |-> FALSE, v |-> Zero]

\* start_time.unwrap_or(1583020800000): 2020-03-01, 26383680 minutes.
default_start == Ms(26383680, 0)

limit == 1000

max_batches == 20

chunk_size == 5

sleep_ms == 50

\* The match on interval: the milliseconds of one candle.
interval_ms(interval) ==
    CASE interval = "1" -> Ms(1, 0)
      [] interval = "3" -> Ms(3, 0)
      [] interval = "5" -> Ms(5, 0)
      [] interval = "15" -> Ms(15, 0)
      [] interval = "30" -> Ms(30, 0)
      [] interval = "60" -> Ms(60, 0)
      [] interval = "120" -> Ms(120, 0)
      [] interval = "240" -> Ms(240, 0)
      [] interval = "360" -> Ms(360, 0)
      [] interval = "720" -> Ms(720, 0)
      [] interval \in {"D", "d"} -> Ms(1440, 0)
      [] interval \in {"W", "w"} -> Ms(10080, 0)
      [] interval \in {"M", "m"} -> Ms(43200, 0)
      [] OTHER -> Ms(15, 0)

batch_duration(interval) == Ms(interval_ms(interval).min * limit, 0)

total_duration(current_end, start) == Minus(current_end, start)

\* ((total as f64) / (duration as f64)).ceil() as usize: the cast of a
\* negative number gives 0; duration is a whole number of minutes.
ceil_div(total, duration) ==
    IF ~Lt(Zero, total) THEN 0
    ELSE IF total.min % duration.min = 0 /\ total.ms = 0
    THEN total.min \div duration.min
    ELSE (total.min \div duration.min) + 1

\* Mutant: the number of windows is not capped.
num_batches_NoCap(total, duration) == ceil_div(total, duration)

num_batches(total, duration) ==
    IF ceil_div(total, duration) < max_batches
    THEN ceil_div(total, duration) ELSE max_batches

\* The loop that fills batch_ranges, n rounds left.
RECURSIVE ranges_loop(_, _, _, _)
ranges_loop(n, batch_end, start, duration) ==
    IF n = 0 THEN <<>>
    ELSE LET batch_start == MaxT(Minus(batch_end, duration), start)
             next_end == Minus(batch_start, OneMs)
         IN  <<[start |-> batch_start, end |-> batch_end]>> \o
             (IF Le(next_end, start) THEN <<>>
              ELSE ranges_loop(n - 1, next_end, start, duration))

batch_ranges(interval, start, current_end) ==
    ranges_loop(num_batches(total_duration(current_end, start), batch_duration(interval)),
                current_end, start, batch_duration(interval))

\* Mutant: all windows are requested as one group.
chunk_indices_Whole(n, k) == IF k = 1 THEN 1..n ELSE {}

\* batch_ranges.chunks(5): the places of the k-th group among n windows.
chunk_indices(n, k) == {i \in 1..n : (i - 1) \div chunk_size = k - 1}

Least(S) == CHOOSE m \in S : \A x \in S : m <= x

Greatest(S) == CHOOSE m \in S : \A x \in S : x <= m

\* A candle as the exchange sends it: its timestamp string (ok says whether
\* it parses as an i64, v the number it then gives) and close, which stands
\* for its five number strings.
WireKline(ok, v, close) == [ok |-> ok, v |-> v, close |-> close]

Kline(timestamp, close) == [timestamp |-> timestamp, close |-> close]

\* k.0.parse().unwrap_or(0).
parse_timestamp(k) == IF k.ok THEN k.v ELSE Zero

to_kline(k) == Kline(parse_timestamp(k), k.close)

\* What one request came to: send() and text() succeed or fail, the body
\* parses as the response envelope or does not, and the envelope holds
\* retCode, retMsg and an optional result with its list.
Response(send, status, body, json, ret_code, ret_msg, has_result, list) ==
    [send |-> send, status |-> status, body |-> body, json |-> json,
     ret_code |-> ret_code, ret_msg |-> ret_msg,
     result |-> [some |-> has_result, list |-> list]]

RECURSIVE map_klines(_)
map_klines(list) ==
    IF list = <<>> THEN <<>> ELSE <<to_kline(Head(list))>> \o map_klines(Tail(list))

\* Mutant: the list of an envelope is taken whatever its retCode.
response_klines_AnyCode(resp) ==
    IF resp.send = "Ok" /\ resp.body = "Ok" /\ resp.json = "Ok" /\ resp.result.some
    THEN map_klines(resp.result.list)
    ELSE <<>>

\* The nested if-lets over one result of join_all: the candles it adds.
response_klines(resp) ==
    IF resp.send = "Ok" /\ resp.body = "Ok" /\ resp.json = "Ok"
       /\ resp.ret_code = 0 /\ resp.result.some
    THEN map_klines(resp.result.list)
    ELSE <<>>

\* Mutant: the candles are not filtered.
retain_start_Keep(start_time, ks) == ks

\* if let Some(start_ts) = start_time { retain(|k| k.timestamp >= start_ts) }.
retain_start(start_time, ks) ==
    IF start_time.some
    THEN SelectSeq(ks, LAMBDA k : Le(start_time.v, k.timestamp))
    ELSE ks

\* Mutant: a candle goes before the candles of its own timestamp.
RECURSIVE insert_sorted_Before(_, _)
insert_sorted_Before(ks, k) ==
    IF ks = <<>> THEN <<k>>
    ELSE IF Lt(ks[Len(ks)].timestamp, k.timestamp) THEN Append(ks, k)
    ELSE Append(insert_sorted_Before(SubSeq(ks, 1, Len(ks) - 1), k), ks[Len(ks)])

\* Puts k behind the last candle of a sorted list that is not newer than k.
RECURSIVE insert_sorted(_, _)
insert_sorted(ks, k) ==
    IF ks = <<>> THEN <<k>>
    ELSE IF Le(ks[Len(ks)].timestamp, k.timestamp) THEN Append(ks, k)
    ELSE Append(insert_sorted(SubSeq(ks, 1, Len(ks) - 1), k), ks[Len(ks)])

\* sort_by_key(|k| k.timestamp): a stable sort.
RECURSIVE sort_by_key(_)
sort_by_key(ks) ==
    IF ks = <<>> THEN <<>>
    ELSE insert_sorted(sort_by_key(SubSeq(ks, 1, Len(ks) - 1)), ks[Len(ks)])

\* Mutant: only candles equal in every field count as duplicates.
RECURSIVE dedup_by_key_Whole(_)
dedup_by_key_Whole(ks) ==
    IF Len(ks) <= 1 THEN ks
    ELSE IF ks[1] = ks[2]
    THEN dedup_by_key_Whole(<<ks[1]>> \o SubSeq(ks, 3, Len(ks)))
    ELSE <<ks[1]>> \o dedup_by_key_Whole(Tail(ks))

\* dedup_by_key(|k| k.timestamp): of neighbours with the same timestamp the
\* first stays.
RECURSIVE dedup_by_key(_)
dedup_by_key(ks) ==
    IF Len(ks) <= 1 THEN ks
    ELSE IF ks[1].timestamp = ks[2].timestamp
    THEN dedup_by_key(<<ks[1]>> \o SubSeq(ks, 3, Len(ks)))
    ELSE <<ks[1]>> \o dedup_by_key(Tail(ks))

\* The arguments of a get_all_klines call and what Utc::now() gives it.
KlineArgs(interval, start_time, end_time, now) ==
    [interval |-> interval, start_time |-> start_time, end_time |-> end_time,
     now |-> now]

NoArgs == KlineArgs("", NoneT, NoneT, Zero)

current_end(args) == IF args.end_time.some THEN args.end_time.v ELSE args.now

start_of(args) == IF args.start_time.some THEN args.start_time.v ELSE default_start

NoResult == [tag |-> "None", val |-> <<>>]

\* No get_all_klines call.
KlinesIdle ==
    [pc |-> "idle", args |-> NoArgs, server |-> <<>>, batch_ranges |-> <<>>,
     chunk |-> 0, pending |-> {}, issued |-> <<>>, done |-> {}, joined |-> <<>>,
     clock |-> 0, all_klines |-> <<>>, ret |-> NoResult, second_first |-> FALSE]

\* The response of the exchange to the i-th request of the call.
ResponseTo(i) == kl.server[((i - 1) % Len(kl.server)) + 1]

\* The URL of a kline request: its limit and end parameters (category,
\* symbol and interval are the call's own and the same in every request).
Request(idx, end_ts) == [idx |-> idx, limit |-> limit, end |-> end_ts, at |-> kl.clock]

\* get_all_klines up to the first group: the windows.
get_all_klines ==
    /\ kl.pc = "called"
    /\ kl' = [kl EXCEPT
                !.batch_ranges = batch_ranges(kl.args.interval, start_of(kl.args),
                                              current_end(kl.args)),
                !.chunk = 1,
                !.pc = "chunk"]

\* The head of `for chunk in batch_ranges.chunks(5)`: join_all starts the
\* requests of the group, or the loop is over.
issue_chunk ==
    /\ kl.pc = "chunk"
    /\ LET group == chunk_indices(Len(kl.batch_ranges), kl.chunk)
           reqs == [i \in 1..Cardinality(group) |->
                      Request(Least(group) + i - 1,
                              kl.batch_ranges[Least(group) + i - 1].end)]
       IN  IF group = {}
           THEN kl' = [kl EXCEPT !.pc = "finish"]
           ELSE kl' = [kl EXCEPT !.pending = group,
                                 !.issued = kl.issued \o reqs,
                                 !.pc = "join"]

\* One request of the group in flight completes, well or not; second_first
\* tells that the second request completed while the first was in flight.
complete(i) ==
    /\ kl.pc = "join"
    /\ i \in kl.pending
    /\ kl' = [kl EXCEPT !.pending = kl.pending \ {i}, !.done = kl.done \cup {i},
                        !.second_first = @ \/ (i = 2 /\ 1 \in kl.pending)]

RECURSIVE extend_all(_, _)
extend_all(from, to) ==
    IF from > to THEN <<>>
    ELSE response_klines(ResponseTo(from)) \o extend_all(from + 1, to)

\* join_all has returned: the loop over its results, in the order of the
\* requests, reads each body and extends all_klines.
collect ==
    /\ kl.pc = "join"
    /\ kl.pending = {}
    /\ LET group == chunk_indices(Len(kl.batch_ranges), kl.chunk)
       IN  kl' = [kl EXCEPT !.all_klines = kl.all_klines \o
                                                extend_all(Least(group), Greatest(group)),
                            !.joined = Append(kl.joined, kl.clock),
                            !.pc = "sleep"]

\* tokio::time::sleep(50 ms) at the end of the loop body.
sleep ==
    /\ kl.pc = "sleep"
    /\ kl' = [kl EXCEPT !.clock = kl.clock + sleep_ms,
                        !.chunk = kl.chunk + 1,
                        !.pc = "chunk"]

\* After the loop: filter, sort, dedup, Ok.
finish ==
    /\ kl.pc = "finish"
    /\ kl' = [kl EXCEPT
                !.ret = [tag |-> "Ok",
                         val |-> dedup_by_key(sort_by_key(
                                   retain_start(kl.args.start_time, kl.all_klines)))],
                !.pc = "done"]

(* ------------------- BybitClient: signing, single calls --------------- *)
recv_window == 5000

\* BybitClient: the fields that take part in a request.
BybitClient_new(api_key, api_secret) == [api_key |-> api_key, api_secret |-> api_secret]

\* Mutant: the parameters are put first.
sign_str_ParamsFirst(api_key, params, timestamp, rw) ==
    params \o ToString(timestamp) \o api_key \o ToString(rw)

\* format!("{}{}{}{}", timestamp, self.api_key, recv_window, params).
sign_str(api_key, params, timestamp, rw) ==
    ToString(timestamp) \o api_key \o ToString(rw) \o params

\* hex::encode of HMAC-SHA256 of msg under key: the same for the same key
\* and message, another one for any other.
hmac_sha256_hex(key, msg) == "hmac-sha256(" \o key \o "," \o msg \o ")"

\* BybitClient::sign.
sign(client, params, timestamp, rw) ==
    hmac_sha256_hex(client.api_secret, sign_str(client.api_key, params, timestamp, rw))

\* BybitClient::auth_headers; now is what Utc::now() gives.
auth_headers(client, params, now) ==
    LET timestamp == now
        signature == sign(client, params, timestamp, recv_window)
    IN  insert(insert(insert(insert(insert(HashMap_new,
            "X-BAPI-API-KEY", client.api_key),
            "X-BAPI-SIGN", signature),
            "X-BAPI-TIMESTAMP", ToString(timestamp)),
            "X-BAPI-RECV-WINDOW", ToString(recv_window)),
            "Content-Type", "application/json")

\* Result<_, BybitError>; val holds the items of an Ok.
Ok(val) == [tag |-> "Ok", err |-> "", msg |-> "", val |-> val]

Err(kind, msg) == [tag |-> "Err", err |-> kind, msg |-> msg, val |-> <<>>]

NoRet == [tag |-> "None", err |-> "", msg |-> "", val |-> <<>>]

\* Mutant: retCode is not looked at.
envelope_NoCode(resp) ==
    IF resp.send = "Err" THEN Err("NetworkError", "send")
    ELSE IF resp.body = "Err" THEN Err("NetworkError", "text")
    ELSE IF resp.json = "Err" THEN Err("ParseError", "json")
    ELSE Ok(<<>>)

\* The head every single-call operation shares: send().await?, text().await?,
\* serde_json::from_str(..)?, and the test of ret_code.
envelope(resp) ==
    IF resp.send = "Err" THEN Err("NetworkError", "send")
    ELSE IF resp.body = "Err" THEN Err("NetworkError", "text")
    ELSE IF resp.json = "Err" THEN Err("ParseError", "json")
    ELSE IF resp.ret_code # 0 THEN Err("ApiError", resp.ret_msg)
    ELSE Ok(<<>>)

\* result.and_then(|r| r.list.into_iter().next()).map(..).ok_or(ParseError(msg)).
first_or(resp, msg) ==
    IF resp.result.some /\ resp.result.list # <<>>
    THEN Ok(<<to_kline(Head(resp.result.list))>>)
    ELSE Err("ParseError", msg)

\* Ok(result.map(|r| r.list.into_iter().map(..).collect()).unwrap_or_default()).
all_or_default(resp) ==
    Ok(IF resp.result.some THEN map_klines(resp.result.list) ELSE <<>>)

SingleCalls ==
    {"get_ticker", "get_all_tickers", "get_instruments", "get_klines",
     "get_wallet_balance"}

\* What a single-call operation returns for what its request came to.  The
\* items of a list (tickers, instruments, accounts, candles) are records of
\* strings parsed field by field; the candle stands for all of them.
single_call(op, resp) ==
    IF envelope(resp).tag = "Err" THEN envelope(resp)
    ELSE IF op = "get_ticker" THEN first_or(resp, "No ticker data")
    ELSE IF op = "get_wallet_balance" THEN first_or(resp, "No balance data")
    ELSE all_or_default(resp)

\* A call on a client: the operation, its arguments, and what it gave.
CallRec(op, params, timestamp, rw, out, headers, response, result) ==
    [op |-> op, params |-> params, timestamp |-> timestamp, recv_window |-> rw,
     out |-> out, headers |-> headers, response |-> response, ret |-> result]

NoResponse == Response("", 0, "", "", 0, "", FALSE, <<>>)

NoCallRec == CallRec("", "", 0, 0, "", HashMap_new, NoResponse, NoRet)

Clients == {"c1", "c2"}

ClientsIdle ==
    [clock |-> 0,
     client |-> [c \in Clients |-> BybitClient_new("", "")],
     last |-> [c \in Clients |-> NoCallRec]]

\* Time passes.
tick_clock ==
    /\ cl.clock < MaxClock
    /\ cl' = [cl EXCEPT !.clock = cl.clock + 1]

\* A call of sign.
sign_call(c, params, timestamp, rw) ==
    cl' = [cl EXCEPT !.last[c] =
             CallRec("sign", params, timestamp, rw,
                     sign(cl.client[c], params, timestamp, rw),
                     HashMap_new, NoResponse, NoRet)]

\* A call of auth_headers.
auth_headers_call(c, params) ==
    LET headers == auth_headers(cl.client[c], params, cl.clock) IN
    cl' = [cl EXCEPT !.last[c] =
             CallRec("auth_headers", params, cl.clock, recv_window,
                     headers["X-BAPI-SIGN"], headers, NoResponse, NoRet)]

\* get_ticker, get_all_tickers, get_instruments, get_klines: one request
\* without headers.
public_call(c, op, resp) ==
    cl' = [cl EXCEPT !.last[c] =
             CallRec(op, "", 0, 0, "", HashMap_new, resp, single_call(op, resp))]

\* get_wallet_balance: one request with the headers of auth_headers.
get_wallet_balance(c, resp) ==
    LET params == "accountType=UNIFIED"
        headers == auth_headers(cl.client[c], params, cl.clock)
    IN  cl' = [cl EXCEPT !.last[c] =
                 CallRec("get_wallet_balance", params, cl.clock, recv_window,
                         headers["X-BAPI-SIGN"], headers, resp,
                         single_call("get_wallet_balance", resp))]

\* What a call on a BybitClient leaves alone.
ExchangeFrame == UNCHANGED <<busVars, stateVars, positions, moduleVars, sideVars>>

KlinesFrame == ExchangeFrame /\ UNCHANGED cl

ClientFrame == ExchangeFrame /\ UNCHANGED kl

(* ----------------------------- SecureVault ---------------------------- *)
\* data.as_bytes() and String::from_utf8: the bytes of a string, and the
\* string of bytes that are one.
as_bytes(data) == [utf8 |-> data]

from_utf8(bytes) == bytes.utf8

\* Aes256Gcm encrypt and decrypt: decryption gives the plaintext back under
\* the key and nonce of the encryption and fails under any other.
encrypt(key, nonce, plaintext) == [key |-> key, nonce |-> nonce, plaintext |-> plaintext]

decrypt(key, nonce, ciphertext) ==
    IF ciphertext.key = key /\ ciphertext.nonce = nonce
    THEN [ok |-> TRUE, plaintext |-> ciphertext.plaintext]
    ELSE [ok |-> FALSE, plaintext |-> as_bytes("")]

EncryptedCredential(encrypted_data, nonce) ==
    [encrypted_data |-> encrypted_data, nonce |-> nonce]

\* SecureVault::new.
SecureVault_new(key) == [key |-> key, credentials |-> HashMap_new]

\* Result<String, VaultError>, Result<(), VaultError>, bool.
VaultRet(tag, val) == [tag |-> tag, val |-> val]

\* Mutant: an id already stored keeps its credential.
store_credentials_KeepOld(v, id, data, nonce) ==
    insert_KeepOld(v.credentials, id,
                   EncryptedCredential(encrypt(v.key, nonce, as_bytes(data)), nonce))

\* SecureVault::store: the credentials after it; nonce is what the random
\* generator gave.
store_credentials(v, id, data, nonce) ==
    insert(v.credentials, id,
           EncryptedCredential(encrypt(v.key, nonce, as_bytes(data)), nonce))

\* SecureVault::retrieve.
retrieve(v, id) ==
    IF id \notin DOMAIN v.credentials THEN VaultRet("NotFound", id)
    ELSE LET cred == v.credentials[id]
             decrypted == decrypt(v.key, cred.nonce, cred.encrypted_data)
         IN  IF decrypted.ok THEN VaultRet("Ok", from_utf8(decrypted.plaintext))
             ELSE VaultRet("DecryptionFailed", "Decryption failed")

\* HashMap::remove.
remove_key(map, key) == [k \in DOMAIN map \ {key} |-> map[k]]

\* A call on the vault: the operation, its id, what it returned, and whether
\* the id was stored when it was called.
VaultCall(op, id, result, was_present) ==
    [op |-> op, id |-> id, ret |-> result, was_present |-> was_present]

\* The vault with a key, nothing stored, nothing called; clear holds what
\* was stored last under each id that is stored.
VaultOf(key) ==
    [v |-> SecureVault_new(key), last |-> VaultCall("new", "", VaultRet("Ok", ""), FALSE),
     clear |-> HashMap_new]

VaultIdle == VaultOf("")

vault_store(id, data, nonce) ==
    vault' = [v |-> [vault.v EXCEPT !.credentials = store_credentials(vault.v, id, data, nonce)],
              last |-> VaultCall("store", id, VaultRet("Ok", ""), id \in DOMAIN vault.clear),
              clear |-> insert(vault.clear, id, data)]

vault_retrieve(id) ==
    vault' = [vault EXCEPT
                !.last = VaultCall("retrieve", id, retrieve(vault.v, id),
                                   id \in DOMAIN vault.clear)]

\* SecureVault::remove.
vault_remove(id) ==
    vault' = [v |-> [vault.v EXCEPT !.credentials = remove_key(vault.v.credentials, id)],
              last |-> VaultCall("remove", id,
                                 VaultRet("bool", IF id \in DOMAIN vault.v.credentials
                                                  THEN "true" ELSE "false"),
                                 id \in DOMAIN vault.clear),
              clear |-> remove_key(vault.clear, id)]

\* SecureVault::clear.
vault_clear ==
    vault' = [v |-> [vault.v EXCEPT !.credentials = HashMap_new],
              last |-> VaultCall("clear", "", VaultRet("Ok", ""), FALSE),
              clear |-> HashMap_new]


(* ------------------------ the locks of AppState ----------------------- *)
\* The fields of AppState behind an Arc<RwLock<..>>.
Fields == {"live_prices", "alarms", "settings", "positions", "active_modules"}

\* Who takes locks: the tasks that call AppState, and the task that runs the
\* module's on_price_tick.
ModuleTask == "module"

LockTasks == Tasks \cup {ModuleTask}

\* Mutant: one lock guards all of AppState.
field_of_OneLock(op) == "positions"

\* The field whose lock an operation takes, and how.
field_of(op) ==
    CASE op \in {"update_price", "get_price"} -> "live_prices"
      [] op \in {"set_module_active", "is_module_active"} -> "active_modules"
      [] op = "on_price_tick" -> "positions"

mode_of(op) ==
    IF op \in {"update_price", "set_module_active"} THEN "write" ELSE "read"

\* tokio::sync::RwLock: a writer excludes everyone, readers exclude a writer.
can_lock(l, field, mode) ==
    IF mode = "write" THEN l.writer[field] = "" /\ l.readers[field] = {}
    ELSE l.writer[field] = ""

lock(l, t, field, mode) ==
    IF mode = "write" THEN [l EXCEPT !.writer[field] = t]
    ELSE [l EXCEPT !.readers[field] = @ \cup {t}]

\* Dropping the guard.
unlock(l, t, field) ==
    [l EXCEPT !.writer[field] = IF @ = t THEN "" ELSE @, !.readers[field] = @ \ {t}]

\* Where a task is: idle, at the await of the lock ("acquire"), inside the
\* guard's scope ("held"), or past it at the publish ("publish"); epoch and
\* under tell whether the call began while the module task held a lock and
\* returned before the module task dropped it.
At(pc, call, epoch, under) == [pc |-> pc, call |-> call, epoch |-> epoch, under |-> under]

AtIdle == At("idle", NoCall, 0, FALSE)

LocksIdle ==
    [writer |-> [f \in Fields |-> ""], readers |-> [f \in Fields |-> {}],
     at |-> [t \in LockTasks |-> AtIdle]]

HeldBy(l, t) == {f \in Fields : l.writer[f] = t \/ t \in l.readers[f]}

ModuleHolds(l) == l.at[ModuleTask].pc = "held"

\* A task calls an operation of AppState and reaches the await of its lock.
lock_begin(t, c) ==
    /\ locks.at[t].pc = "idle"
    /\ calls < MaxCalls
    /\ calls' = calls + 1
    /\ locks' = [locks EXCEPT !.at[t] = At("acquire", c,
                                          IF ModuleHolds(locks) THEN ticks ELSE 0, FALSE)]
    /\ UNCHANGED <<busVars, live_prices, active_modules, task, writes>>

\* The await of the lock returns the guard.
lock_acquire(t) ==
    /\ locks.at[t].pc = "acquire"
    /\ LET op == locks.at[t].call.op IN
       /\ can_lock(locks, field_of(op), mode_of(op))
       /\ locks' = [lock(locks, t, field_of(op), mode_of(op)) EXCEPT !.at[t].pc = "held"]

Returned(a) ==
    [AtIdle EXCEPT !.call = a.call,
                   !.under = a.epoch > 0 /\ ModuleHolds(locks) /\ ticks = a.epoch]

\* The statement under the guard, and the guard dropped at the end of its
\* scope: the writers go on to their publish, the readers return.
lock_section(t) ==
    /\ locks.at[t].pc = "held"
    /\ LET c == locks.at[t].call
           l == unlock(locks, t, field_of(c.op)) IN
       CASE c.op = "update_price" ->
               /\ Stmt(update_price_stmts[1], c)
               /\ locks' = [l EXCEPT !.at[t].pc = "publish"]
         [] c.op = "set_module_active" ->
               /\ Stmt(set_module_active_stmts[1], c)
               /\ locks' = [l EXCEPT !.at[t].pc = "publish"]
         [] c.op = "get_price" ->
               /\ locks' = [l EXCEPT !.at[t] =
                              Returned([locks.at[t] EXCEPT !.call.tick = get_price(c.tick.symbol)])]
               /\ UNCHANGED <<busVars, live_prices, active_modules, writes>>
         [] c.op = "is_module_active" ->
               /\ locks' = [l EXCEPT !.at[t] =
                              Returned([locks.at[t] EXCEPT
                                          !.call.is_active = is_module_active(c.module_id)])]
               /\ UNCHANGED <<busVars, live_prices, active_modules, writes>>
    /\ UNCHANGED <<calls, task>>

\* The publish after the guard's scope, and the return.
lock_publish(t) ==
    /\ locks.at[t].pc = "publish"
    /\ Stmt(StmtsOf(locks.at[t].call.op)[2], locks.at[t].call)
    /\ locks' = [locks EXCEPT !.at[t] = Returned(locks.at[t])]
    /\ UNCHANGED <<calls, task>>

\* on_price_tick up to the await of positions.read(): an inactive module and
\* a module without state return before it.
tick_begin(tick) ==
    /\ locks.at[ModuleTask].pc = "idle"
    /\ ticks < MaxTicks
    /\ ticks' = ticks + 1
    /\ LET out == on_price_tick_outcome(module, positions, tick) IN
       IF out.reads = 0
       THEN /\ ret' = Ret("on_price_tick", out.result, tick)
            /\ UNCHANGED locks
       ELSE /\ locks' = [locks EXCEPT !.at[ModuleTask] =
                            At("acquire", Call("on_price_tick", ticks + 1, tick, "", FALSE),
                               0, FALSE)]
            /\ UNCHANGED ret
    /\ UNCHANGED <<posReads, signals>>

tick_acquire ==
    /\ locks.at[ModuleTask].pc = "acquire"
    /\ can_lock(locks, field_of("on_price_tick"), mode_of("on_price_tick"))
    /\ locks' = [lock(locks, ModuleTask, field_of("on_price_tick"), mode_of("on_price_tick"))
                   EXCEPT !.at[ModuleTask].pc = "held"]

\* The loop over the positions under the read guard, and the return that
\* drops it.
tick_section ==
    /\ locks.at[ModuleTask].pc = "held"
    /\ LET tick == locks.at[ModuleTask].call.tick
           out == on_price_tick_outcome(module, positions, tick) IN
       /\ ret' = Ret("on_price_tick", out.result, tick)
       /\ posReads' = posReads + out.reads
       /\ signals' = signals \o out.signals
    /\ locks' = [unlock(locks, ModuleTask, field_of("on_price_tick"))
                   EXCEPT !.at[ModuleTask] = AtIdle]
    /\ UNCHANGED ticks


(* ------------------------------ commands ------------------------------ *)
\* The ids list_modules reports.
ListedIds ==
    {"sma_analyzer", "vwap_analyzer", "anchored_vwap", "risk_monitor", "stop_loss",
     "batch_trading", "strategy_builder"}

\* ConnectionState; the error is None wherever the commands build one.
ConnectionState(is_connected, is_demo, exchange) ==
    [is_connected |-> is_connected, is_demo |-> is_demo, exchange |-> exchange]

\* ConnectionState::default().
ConnectionState_default == ConnectionState(FALSE, FALSE, "")

ApiCredentials(api_key, api_secret, testnet) ==
    [api_key |-> api_key, api_secret |-> api_secret, testnet |-> testnet]

NoCredentials == ApiCredentials("", "", FALSE)

\* Option<BybitClient>.
SomeClient(credentials) ==
    [some |-> TRUE, client |-> BybitClient_new(credentials.api_key, credentials.api_secret),
     testnet |-> credentials.testnet]

NoClient == [some |-> FALSE, client |-> BybitClient_new("", ""), testnet |-> FALSE]

\* What a command returned: Ok or Err, and the value it carried.
CmdRet(tag, status, flag, msg) == [tag |-> tag, status |-> status, flag |-> flag, msg |-> msg]

NoCmdRet == CmdRet("None", ConnectionState_default, FALSE, "")

\* Where a task is in a command: the command, its arguments, the statement
\* it is at, and what the command returned once it is idle again.
Cmd(pc, op, credentials, module_id, active, result) ==
    [pc |-> pc, op |-> op, credentials |-> credentials, module_id |-> module_id,
     active |-> active, ret |-> result]

CmdIdle == Cmd("idle", "none", NoCredentials, "", FALSE, NoCmdRet)

\* The statics: MODULE_STATES, EXCHANGE_CLIENT, CONNECTION_STATUS; listed is
\* what the last list_modules returned, last the task that returned last.
CommandsIdle ==
    [module_states |-> HashMap_new, client |-> NoClient, status |-> ConnectionState_default,
     at |-> [t \in Tasks |-> CmdIdle], listed |-> [id \in ListedIds |-> FALSE], last |-> ""]

\* states.get(id).unwrap_or(&false).
get_or_false(states, id) == IF id \in DOMAIN states THEN states[id] ELSE FALSE

\* toggle_module: MODULE_STATES after it.
toggle_states(states, module_id, active) == insert(states, module_id, active)

toggle_module(t, module_id, active) ==
    /\ cmd.at[t].pc = "idle"
    /\ cmd' = [cmd EXCEPT
                 !.module_states = toggle_states(cmd.module_states, module_id, active),
                 !.at[t] = Cmd("idle", "toggle_module", NoCredentials, module_id, active,
                               CmdRet("Ok", ConnectionState_default, active, "")),
                 !.last = t]

list_modules(t) ==
    /\ cmd.at[t].pc = "idle"
    /\ cmd' = [cmd EXCEPT
                 !.listed = [id \in ListedIds |-> get_or_false(cmd.module_states, id)],
                 !.at[t] = Cmd("idle", "list_modules", NoCredentials, "", FALSE,
                               CmdRet("Ok", ConnectionState_default, FALSE, "")),
                 !.last = t]

\* connect_exchange up to the match on the connection test: a test that did
\* not succeed returns the error, one that did goes on to store the client.
connect_exchange(t, credentials, test) ==
    /\ cmd.at[t].pc = "idle"
    /\ cmd' = IF test = "Ok(true)"
              THEN [cmd EXCEPT !.at[t] = Cmd("store_client", "connect_exchange", credentials,
                                             "", FALSE, NoCmdRet)]
              ELSE [cmd EXCEPT !.at[t] = Cmd("idle", "connect_exchange", credentials, "", FALSE,
                                             CmdRet("Err", ConnectionState_default, FALSE, test)),
                                !.last = t]

\* The block that stores the client.
connect_store_client(t) ==
    /\ cmd.at[t].pc = "store_client"
    /\ cmd' = [cmd EXCEPT !.client = SomeClient(cmd.at[t].credentials),
                          !.at[t].pc = "store_status"]

\* The block that stores the status, and the return.
connect_store_status(t) ==
    /\ cmd.at[t].pc = "store_status"
    /\ LET state == ConnectionState(TRUE, cmd.at[t].credentials.testnet, "Bybit") IN
       cmd' = [cmd EXCEPT !.status = state,
                          !.at[t].pc = "idle",
                          !.at[t].ret = CmdRet("Ok", state, FALSE, ""),
                          !.last = t]

\* disconnect_exchange: the block that clears the client.
disconnect_exchange(t) ==
    /\ cmd.at[t].pc = "idle"
    /\ cmd' = [cmd EXCEPT !.client = NoClient,
                          !.at[t] = Cmd("clear_status", "disconnect_exchange", NoCredentials,
                                        "", FALSE, NoCmdRet)]

\* disconnect_exchange: the block that stores the status, and the return.
disconnect_store_status(t) ==
    /\ cmd.at[t].pc = "clear_status"
    /\ LET state == ConnectionState(FALSE, TRUE, "") IN
       cmd' = [cmd EXCEPT !.status = state,
                          !.at[t].pc = "idle",
                          !.at[t].ret = CmdRet("Ok", state, FALSE, ""),
                          !.last = t]

get_connection_status(t) ==
    /\ cmd.at[t].pc = "idle"
    /\ cmd' = [cmd EXCEPT !.at[t] = Cmd("idle", "get_connection_status", NoCredentials, "",
                                        FALSE, CmdRet("Ok", cmd.status, FALSE, "")),
                          !.last = t]

\* The command get_wallet_balance: no stored client is an error, otherwise
\* what the client's call gives (wallet: "Ok" or the text of its error).
get_wallet_balance_command(t, wallet) ==
    /\ cmd.at[t].pc = "idle"
    /\ cmd' = [cmd EXCEPT
                 !.at[t] = Cmd("idle", "get_wallet_balance", NoCredentials, "", FALSE,
                               IF ~cmd.client.some
                               THEN CmdRet("Err", cmd.status, FALSE, "no connection")
                               ELSE CmdRet(IF wallet = "Ok" THEN "Ok" ELSE "Err",
                                           cmd.status, FALSE, wallet)),
                 !.last = t]

SideIdle == vault = VaultIdle /\ locks = LocksIdle /\ cmd = CommandsIdle

(* --------------------------- specifications --------------------------- *)
Module_new ==
    /\ module = StopLossModule_new
    /\ life = [initialized |-> FALSE, shut |-> FALSE, recovered |-> FALSE]
    /\ signals = <<>>
    /\ posReads = 0
    /\ ret = Ret("new", "Ok", NoTick)
    /\ ticks = 0

InitBus == (\E cap \in 1..MaxCapacity : AppState_new(cap)) /\ Module_new /\ kl = KlinesIdle /\ cl = ClientsIdle
           /\ SideIdle

NextBus == Publish \/ Subscribe \/ Recv \/ DropReceiver

SpecBus == InitBus /\ [][NextBus]_vars

InitState == AppState_new(MaxCapacity) /\ Module_new /\ kl = KlinesIdle /\ cl = ClientsIdle
           /\ SideIdle

\* What a step of AppState's price and module maps leaves alone.
StateFrame == UNCHANGED <<positions, module, life, signals, posReads, ret, ticks,
                          exchangeVars, sideVars>>

UpdatePrice ==
    /\ \E t \in Tasks, s \in Symbols, p \in Prices :
          update_price(t, StandardTick(s, p, calls + 1))
    /\ StateFrame

SetModuleActive ==
    /\ \E t \in Tasks, m \in ModuleIds, a \in BOOLEAN : set_module_active(t, m, a)
    /\ StateFrame

Return == (\E t \in Tasks : Finish(t)) /\ StateFrame

SubscribeState == subscribe(StateReceiver) /\ BusFrame

RecvState == recv(StateReceiver) /\ BusFrame

NextState == UpdatePrice \/ SetModuleActive \/ Return \/ SubscribeState \/ RecvState

SpecState == InitState /\ [][NextState]_vars

\* The positions the order path (not part of this code) may have put into
\* AppState.positions: none, one or two of them, ids by place.
PositionChoices(id) ==
    {Position(id, sy, sd, e, st) :
        sy \in Symbols, sd \in Sides, e \in EntryPrices,
        st \in {NoneF} \cup {Some(v) : v \in StopPrices}}

PositionLists ==
    {<<>>} \cup {<<p>> : p \in PositionChoices("p1")}
           \cup {<<p, q>> : p \in PositionChoices("p1"), q \in PositionChoices("p2")}

InitModule ==
    /\ new(MaxCapacity)
    /\ live_prices = HashMap_new
    /\ active_modules = HashMap_new
    /\ task = [t \in Tasks |-> [pc |-> 0, call |-> NoCall, last |-> NoCall]]
    /\ writes = <<>>
    /\ calls = 0
    /\ positions \in PositionLists
    /\ Module_new
    /\ kl = KlinesIdle
    /\ cl = ClientsIdle
    /\ SideIdle

Initialize == initialize

Shutdown == shutdown

SetActive == \E a \in BOOLEAN : set_active(a)

OnPriceTick ==
    \E s \in Symbols, p \in TickPrices : on_price_tick(StandardTick(s, p, ticks + 1))

NextModule == Initialize \/ Shutdown \/ SetActive \/ OnPriceTick

SpecModule == InitModule /\ [][NextModule]_vars

\* The four callbacks on a module that is switched on and off; a signal log
\* of MaxTicks lines is enough to see each of them.
Pnls == {-5, 5}

CallbackPositions ==
    {Position("p1", sy, "Long", 100, Some(95)) : sy \in Symbols}

InitCallbacks ==
    /\ new(MaxCapacity)
    /\ live_prices = HashMap_new
    /\ active_modules = HashMap_new
    /\ task = [t \in Tasks |-> [pc |-> 0, call |-> NoCall, last |-> NoCall]]
    /\ writes = <<>>
    /\ calls = 0
    /\ positions \in {<<>>} \cup {<<p>> : p \in CallbackPositions}
    /\ Module_new
    /\ kl = KlinesIdle
    /\ cl = ClientsIdle
    /\ SideIdle

OnBalanceChange == \E s \in Symbols : on_balance_change(s, 1000)

OnPositionOpened ==
    /\ Len(signals) < MaxTicks
    /\ \E p \in CallbackPositions : on_position_opened(p)

OnPositionClosed ==
    /\ Len(signals) < MaxTicks
    /\ \E p \in CallbackPositions, pnl \in Pnls : on_position_closed(p, pnl)

NextCallbacks ==
    \/ Initialize \/ SetActive \/ OnPriceTick
    \/ OnBalanceChange \/ OnPositionOpened \/ OnPositionClosed

SpecCallbacks == InitCallbacks /\ [][NextCallbacks]_vars

\* A time of 2021 the calls of the model are about.
T0 == Ms(27000000, 0)

\* The calls: every window the default range asks for is beyond the cap; an
\* explicit range of three windows, of one window exactly, an empty one, one
\* beyond the cap, and the default start with eleven windows.
KlineInputs ==
    {KlineArgs("1", NoneT, NoneT, Ms(26408680, 7)),
     KlineArgs("1", Some(T0), Some(Plus(T0, Ms(2500, 0))), Zero),
     KlineArgs("1", Some(T0), Some(Plus(T0, Ms(2500, 5))), Zero),
     KlineArgs("zz", Some(T0), Some(Plus(T0, Ms(15000, 0))), Zero),
     KlineArgs("1", Some(Plus(T0, Ms(5000, 0))), Some(T0), Zero),
     KlineArgs("1", Some(T0), Some(Plus(T0, Ms(30000, 5))), Zero),
     KlineArgs("60", NoneT, Some(T0), Zero)}

\* Candles on the wire: one millisecond before T0, at T0, after T0, and one
\* whose timestamp does not parse.
WireKlines ==
    [low1 |-> WireKline(TRUE, Minus(T0, OneMs), 1),
     a1 |-> WireKline(TRUE, T0, 1),
     a2 |-> WireKline(TRUE, T0, 2),
     b1 |-> WireKline(TRUE, Plus(T0, Ms(100, 0)), 1),
     b2 |-> WireKline(TRUE, Plus(T0, Ms(100, 0)), 2),
     u3 |-> WireKline(FALSE, Plus(T0, Ms(100, 0)), 3)]

\* What the exchange and the network may answer to a kline request.
ServerResponses ==
    {Response("Err", 0, "Err", "Err", 0, "", FALSE, <<>>),
     Response("Ok", 200, "Err", "Err", 0, "", FALSE, <<>>),
     Response("Ok", 502, "Ok", "Err", 0, "", FALSE, <<>>),
     Response("Ok", 200, "Ok", "Ok", 10001, "params error", TRUE, <<WireKlines.b1>>),
     Response("Ok", 200, "Ok", "Ok", 0, "OK", FALSE, <<>>),
     Response("Ok", 200, "Ok", "Ok", 0, "OK", TRUE, <<>>),
     Response("Ok", 200, "Ok", "Ok", 0, "OK", TRUE, <<WireKlines.b1, WireKlines.a1>>),
     Response("Ok", 200, "Ok", "Ok", 0, "OK", TRUE, <<WireKlines.a2, WireKlines.low1>>),
     Response("Ok", 200, "Ok", "Ok", 0, "OK", TRUE, <<WireKlines.u3, WireKlines.b2>>)}

InitKlines ==
    /\ AppState_new(MaxCapacity)
    /\ Module_new
    /\ \E args \in KlineInputs, server \in [1..MaxResponses -> ServerResponses] :
          kl = [KlinesIdle EXCEPT !.pc = "called", !.args = args, !.server = server]
    /\ cl = ClientsIdle
    /\ SideIdle

GetAllKlines == get_all_klines /\ KlinesFrame

IssueChunk == issue_chunk /\ KlinesFrame

Complete == (\E i \in kl.pending : complete(i)) /\ KlinesFrame

Collect == collect /\ KlinesFrame

Sleep == sleep /\ KlinesFrame

ReturnKlines == finish /\ KlinesFrame

NextKlines == GetAllKlines \/ IssueChunk \/ Complete \/ Collect \/ Sleep \/ ReturnKlines

SpecKlines == InitKlines /\ [][NextKlines]_vars

\* What the exchange and the network may answer to a single request.
SingleResponses ==
    {Response("Err", 0, "Err", "Err", 0, "", FALSE, <<>>),
     Response("Ok", 200, "Err", "Err", 0, "", FALSE, <<>>),
     Response("Ok", 502, "Ok", "Err", 0, "", FALSE, <<>>),
     Response("Ok", 200, "Ok", "Ok", 10001, "params error", TRUE, <<WireKlines.b1>>),
     Response("Ok", 401, "Ok", "Ok", 10003, "API key is invalid.", FALSE, <<>>),
     Response("Ok", 200, "Ok", "Ok", 0, "OK", FALSE, <<>>),
     Response("Ok", 200, "Ok", "Ok", 0, "OK", TRUE, <<>>),
     Response("Ok", 200, "Ok", "Ok", 0, "OK", TRUE, <<WireKlines.b1, WireKlines.a1>>),
     Response("Ok", 500, "Ok", "Ok", 0, "OK", TRUE, <<WireKlines.u3>>)}

SignParams == {"", "accountType=UNIFIED"}

\* Two clients: with the same key and secret, or with another key, or with
\* another secret.
InitClient ==
    /\ AppState_new(MaxCapacity)
    /\ Module_new
    /\ kl = KlinesIdle
    /\ SideIdle
    /\ \E other \in {BybitClient_new("key1", "secret1"), BybitClient_new("key2", "secret1"),
                     BybitClient_new("key1", "secret2")} :
          cl = [ClientsIdle EXCEPT !.client =
                  [c \in Clients |-> IF c = "c1" THEN BybitClient_new("key1", "secret1")
                                     ELSE other]]

TickClock == tick_clock /\ ClientFrame

Sign ==
    /\ \E c \in Clients, params \in SignParams, timestamp \in 0..MaxClock,
          rw \in {recv_window, 2 * recv_window} : sign_call(c, params, timestamp, rw)
    /\ ClientFrame

AuthHeaders ==
    (\E c \in Clients, params \in SignParams : auth_headers_call(c, params)) /\ ClientFrame

\* The operations without headers use neither key nor secret: one client
\* makes them.
PublicCall ==
    /\ \E op \in SingleCalls \ {"get_wallet_balance"}, resp \in SingleResponses :
          public_call("c1", op, resp)
    /\ ClientFrame

GetWalletBalance ==
    (\E c \in Clients, resp \in SingleResponses : get_wallet_balance(c, resp)) /\ ClientFrame

NextClient == TickClock \/ Sign \/ AuthHeaders \/ PublicCall \/ GetWalletBalance

SpecClient == InitClient /\ [][NextClient]_vars

VaultKeys == {"key-a", "key-b"}

VaultIds == {"bybit_api_key", "bybit_api_secret"}

VaultData == {"abc", "xyz"}

Nonces == {"n1", "n2"}

InitVault ==
    /\ AppState_new(MaxCapacity)
    /\ Module_new
    /\ kl = KlinesIdle
    /\ cl = ClientsIdle
    /\ \E key \in VaultKeys : vault = VaultOf(key)
    /\ locks = LocksIdle
    /\ cmd = CommandsIdle

\* What a call on the vault leaves alone.
VaultFrame == UNCHANGED <<busVars, stateVars, positions, moduleVars, exchangeVars, locks, cmd>>

Store ==
    (\E id \in VaultIds, data \in VaultData, nonce \in Nonces : vault_store(id, data, nonce))
    /\ VaultFrame

Retrieve == (\E id \in VaultIds : vault_retrieve(id)) /\ VaultFrame

Remove == (\E id \in VaultIds : vault_remove(id)) /\ VaultFrame

Clear == vault_clear /\ VaultFrame

NextVault == Store \/ Retrieve \/ Remove \/ Clear

SpecVault == InitVault /\ [][NextVault]_vars

\* The calls on AppState the tasks make, and the module the tick task runs.
LockCalls(serial) ==
    {Call("update_price", serial, StandardTick("BTCUSDT", 100, serial), "", FALSE),
     Call("get_price", serial, StandardTick("BTCUSDT", 0, 0), "", FALSE),
     Call("set_module_active", serial, NoTick, "stop_loss", TRUE),
     Call("is_module_active", serial, NoTick, "stop_loss", FALSE)}

InitLocks ==
    /\ new(MaxCapacity)
    /\ live_prices = HashMap_new
    /\ active_modules = HashMap_new
    /\ task = [t \in Tasks |-> [pc |-> 0, call |-> NoCall, last |-> NoCall]]
    /\ writes = <<>>
    /\ calls = 0
    /\ positions = <<Position("p1", "BTCUSDT", "Long", 100, Some(95))>>
    /\ \E active \in BOOLEAN :
          /\ module = [StopLossModule_new EXCEPT !.state = "AppState", !.is_active = active]
          /\ life = [initialized |-> TRUE, shut |-> FALSE, recovered |-> FALSE]
          /\ signals = <<>> /\ posReads = 0 /\ ticks = 0
          /\ ret = Ret("initialize", "Ok", NoTick)
    /\ kl = KlinesIdle
    /\ cl = ClientsIdle
    /\ vault = VaultIdle
    /\ cmd = CommandsIdle
    /\ locks = LocksIdle

\* What a step of a task of AppState, and of the tick task, leaves alone.
LockStateFrame == UNCHANGED <<positions, moduleVars, exchangeVars, vault, cmd>>

LockTickFrame ==
    UNCHANGED <<busVars, stateVars, positions, module, life, exchangeVars, vault, cmd>>

LockBegin == (\E t \in Tasks : \E c \in LockCalls(calls + 1) : lock_begin(t, c)) /\ LockStateFrame

LockAcquire ==
    /\ \E t \in Tasks : lock_acquire(t)
    /\ UNCHANGED <<busVars, stateVars>>
    /\ LockStateFrame

LockSection == (\E t \in Tasks : lock_section(t)) /\ LockStateFrame

LockPublish == (\E t \in Tasks : lock_publish(t)) /\ LockStateFrame

TickBegin == tick_begin(StandardTick("BTCUSDT", 95, ticks + 1)) /\ LockTickFrame

TickAcquire == tick_acquire /\ UNCHANGED <<signals, posReads, ret, ticks>> /\ LockTickFrame

TickSection == tick_section /\ LockTickFrame

NextLocks ==
    \/ LockBegin \/ LockAcquire \/ LockSection \/ LockPublish
    \/ TickBegin \/ TickAcquire \/ TickSection

SpecLocks == InitLocks /\ [][NextLocks]_vars

ToggleIds == {"stop_loss", "risk_monitor"}

Credentials == {ApiCredentials("key", "secret", tn) : tn \in BOOLEAN}

TestResults == {"Ok(true)", "Ok(false)", "NetworkError"}

WalletResults == {"Ok", "ApiError"}

InitCommands ==
    /\ AppState_new(MaxCapacity)
    /\ Module_new
    /\ kl = KlinesIdle
    /\ cl = ClientsIdle
    /\ vault = VaultIdle
    /\ locks = LocksIdle
    /\ cmd = CommandsIdle

\* What a command leaves alone.
CommandFrame ==
    UNCHANGED <<busVars, stateVars, positions, moduleVars, exchangeVars, vault, locks>>

ToggleModule ==
    (\E t \in Tasks, id \in ToggleIds, a \in BOOLEAN : toggle_module(t, id, a)) /\ CommandFrame

ListModules == (\E t \in Tasks : list_modules(t)) /\ CommandFrame

ConnectExchange ==
    /\ \E t \in Tasks, cr \in Credentials, test \in TestResults : connect_exchange(t, cr, test)
    /\ CommandFrame

ConnectStoreClient == (\E t \in Tasks : connect_store_client(t)) /\ CommandFrame

ConnectStoreStatus == (\E t \in Tasks : connect_store_status(t)) /\ CommandFrame

DisconnectExchange == (\E t \in Tasks : disconnect_exchange(t)) /\ CommandFrame

DisconnectStoreStatus == (\E t \in Tasks : disconnect_store_status(t)) /\ CommandFrame

GetConnectionStatus == (\E t \in Tasks : get_connection_status(t)) /\ CommandFrame

GetWalletBalanceCommand ==
    (\E t \in Tasks, w \in WalletResults : get_wallet_balance_command(t, w)) /\ CommandFrame

NextCommands ==
    \/ ToggleModule \/ ListModules
    \/ ConnectExchange \/ ConnectStoreClient \/ ConnectStoreStatus
    \/ DisconnectExchange \/ DisconnectStoreStatus
    \/ GetConnectionStatus \/ GetWalletBalanceCommand

SpecCommands == InitCommands /\ [][NextCommands]_vars

(* ------------------------ reading the histories ----------------------- *)
\* The events a receiver got, in the order it got them.
RECURSIVE OkVals(_)
OkVals(items) ==
    IF items = <<>> THEN <<>>
    ELSE IF Head(items).tag = "Ok" THEN <<Head(items).val>> \o OkVals(Tail(items))
    ELSE OkVals(Tail(items))

Count(ev, r) ==
    Cardinality({i \in 1..Len(received[r]) :
                   received[r][i].tag = "Ok" /\ received[r][i].val = ev})

NoLag(r) == \A i \in 1..Len(received[r]) : received[r][i].tag # "Lagged"

\* The publish call that carried ev (every publish carries its own serial).
Idx(ev) == CHOOSE k \in 1..Len(sent) : sent[k].ev = ev

Published(ev) == \E k \in 1..Len(sent) : sent[k].ev = ev

\* The channel position of publish call k, when it had a receiver.
PosOf(k) == Cardinality({j \in 1..(k - 1) : sent[j].res.tag = "Ok"})

Behind(r) == tailPos - rx[r].next

NextRead(r) == recv_outcome(buffer, tailPos, BufLen, rx[r].next)

\* The events of the publish calls after call `from` that had a receiver.
RECURSIVE EventsAfter(_)
EventsAfter(from) ==
    IF from >= Len(sent) THEN <<>>
    ELSE IF sent[from + 1].res.tag = "Ok"
         THEN <<sent[from + 1].ev>> \o EventsAfter(from + 1)
         ELSE EventsAfter(from + 1)

IsPrefix(s, t) == Len(s) <= Len(t) /\ SubSeq(t, 1, Len(s)) = s

Retained == {i \in DOMAIN buffer : buffer[i].pos >= 0}

(* ------------------------------ claims -------------------------------- *)
\* C1: every receiver that existed when an event was published receives that
\* event at most once, and exactly once as soon as its cursor has passed the
\* event without a "lagged" signal; a receiver that is at most `capacity`
\* events behind is not told it lagged by its next read.
C1_ExactlyOnce ==
    /\ \A k \in 1..Len(sent) : \A r \in sent[k].rxs :
          /\ Count(sent[k].ev, r) <= 1
          /\ (rx[r].next > PosOf(k) /\ NoLag(r)) => Count(sent[k].ev, r) = 1
    /\ \A r \in AliveSet : Behind(r) <= capacity => NextRead(r).tag # "Lagged"

\* Both receivers existed at one publish and each has received its event once.
C1_Witness ==
    \E k \in 1..Len(sent) :
        /\ sent[k].rxs = Receivers
        /\ \A r \in Receivers : Count(sent[k].ev, r) = 1

\* C2: every receiver gets the events it gets in the order of the publish
\* calls, whoever published them; a receiver that lagged skips events and
\* still never sees two of them reordered.
C2_SameOrder ==
    \A r \in Receivers :
        LET vals == OkVals(received[r]) IN
        /\ \A i \in 1..Len(vals) : Published(vals[i])
        /\ \A i, j \in 1..Len(vals) : i < j => Idx(vals[i]) < Idx(vals[j])

\* One receiver got two events in a row, the other lagged, skipped the first
\* of them and got the second.
C2_Witness ==
    \E r1, r2 \in Receivers :
        /\ Len(OkVals(received[r1])) >= 2
        /\ ~NoLag(r2)
        /\ \E e \in {OkVals(received[r1])[i] : i \in 1..Len(OkVals(received[r1]))} :
              /\ Count(e, r2) = 0
              /\ Idx(e) > rx[r2].from
        /\ \E e \in {OkVals(received[r1])[i] : i \in 1..Len(OkVals(received[r1]))} :
              Count(e, r2) = 1

\* C3: a receiver never gets an event published before it was created, and
\* as long as it was never told it lagged, what it got is exactly the events
\* published after its creation, in order, up to where it has read.
C3_NoReplay ==
    \A r \in Receivers :
        LET vals == OkVals(received[r]) IN
        /\ \A i \in 1..Len(vals) : Published(vals[i]) /\ Idx(vals[i]) > rx[r].from
        /\ NoLag(r) => IsPrefix(vals, EventsAfter(rx[r].from))

\* A receiver created after a delivered event has read an event of its own.
C3_Witness ==
    \E r \in Receivers :
        /\ rx[r].from >= 1
        /\ \E k \in 1..rx[r].from : sent[k].res.tag = "Ok"
        /\ Len(OkVals(received[r])) >= 1

\* C4: publish returns Ok(n), n the number of receivers alive at that moment,
\* when there is one, and an error when there is none; an event whose publish
\* failed is in no receiver's history and not in the ring; subscribe has no
\* failure path.
C4_PublishResult ==
    /\ \A k \in 1..Len(sent) :
          /\ sent[k].rxs # {} =>
                sent[k].res = [tag |-> "Ok", n |-> Cardinality(sent[k].rxs)]
          /\ sent[k].rxs = {} =>
                /\ sent[k].res = [tag |-> "Err"]
                /\ \A r \in Receivers : Count(sent[k].ev, r) = 0
                /\ \A i \in DOMAIN buffer : buffer[i].val # sent[k].ev
    /\ \A r \in Receivers : rx[r].status = "none" => ENABLED subscribe(r)

\* A publish failed for want of a receiver, a receiver was created later and
\* has read a later event; another publish reached two receivers.
C4_Witness ==
    /\ \E k \in 1..Len(sent) :
          /\ sent[k].res.tag = "Err"
          /\ \E r \in Receivers : rx[r].from >= k /\ Len(OkVals(received[r])) >= 1
    /\ \E k \in 1..Len(sent) : sent[k].res = [tag |-> "Ok", n |-> 2]

\* C5 as stated: a publish with a receiver never fails and is never held
\* back, a receiver more than `capacity` events behind is told by its next
\* read how many it missed and resumes at the oldest event in the ring, and
\* the ring never holds more than `capacity` events.
C5_AsStated ==
    /\ \A k \in 1..Len(sent) : sent[k].rxs # {} => sent[k].res.tag = "Ok"
    /\ Len(sent) < MaxPublish => ENABLED Publish
    /\ \A r \in AliveSet : Behind(r) > capacity =>
          /\ NextRead(r).tag = "Lagged"
          /\ NextRead(r).next = tailPos - capacity
    /\ Cardinality(Retained) <= capacity

\* The ring length tokio gives a channel of the requested capacity.
RingLen == next_power_of_two(capacity)

\* C5 (amended): the same with the capacity rounded up to a power of two: a
\* receiver more than RingLen behind is told it missed (behind - RingLen)
\* events and resumes at the oldest event in the ring, a receiver at most
\* RingLen behind is not told so, and the ring never holds more than RingLen
\* events.
C5_BoundedLag ==
    /\ \A k \in 1..Len(sent) : sent[k].rxs # {} => sent[k].res.tag = "Ok"
    /\ Len(sent) < MaxPublish => ENABLED Publish
    /\ \A r \in AliveSet :
          /\ Behind(r) > RingLen =>
                /\ NextRead(r) = [tag |-> "Lagged", n |-> Behind(r) - RingLen,
                                  next |-> tailPos - RingLen]
                /\ \E i \in Retained : buffer[i].pos = tailPos - RingLen
                /\ \A i \in Retained : buffer[i].pos >= tailPos - RingLen
          /\ Behind(r) <= RingLen => NextRead(r).tag # "Lagged"
    /\ Cardinality(Retained) <= RingLen

\* On a bus of capacity 3 a receiver was told it lagged and then read on.
C5_Witness ==
    /\ capacity = 3
    /\ \E r \in Receivers : \E i \in 1..Len(received[r]) :
          /\ received[r][i].tag = "Lagged"
          /\ i < Len(received[r])
          /\ received[r][i + 1].tag = "Ok"

(* ------------------------- claims on AppState ------------------------- *)
PriceWrites(symbol) ==
    {i \in 1..Len(writes) :
        writes[i].op = "update_price" /\ writes[i].tick.symbol = symbol}

ModuleWrites(module_id) ==
    {i \in 1..Len(writes) :
        writes[i].op = "set_module_active" /\ writes[i].module_id = module_id}

Last(S) == CHOOSE i \in S : \A j \in S : j <= i

Written(tick) == \E i \in PriceWrites(tick.symbol) : writes[i].tick = tick

WriteIdx(tick) == CHOOSE i \in PriceWrites(tick.symbol) : writes[i].tick = tick

\* C6: a PriceUpdated(t) event is published only once t is in the price map
\* write order, and whenever a receiver holds PriceUpdated(t), get_price of
\* t's symbol gives a tick, t or one written after t.
C6_PublishAfterWrite ==
    /\ \A k \in 1..Len(sent) :
          sent[k].ev.kind = "PriceUpdated" => Written(sent[k].ev.tick)
    /\ \A r \in Receivers : \A i \in 1..Len(received[r]) :
          (received[r][i].tag = "Ok" /\ received[r][i].val.kind = "PriceUpdated") =>
             LET t == received[r][i].val.tick
                 g == get_price(t.symbol)
             IN  /\ g # NoTick
                 /\ Written(t)
                 /\ Written(g)
                 /\ WriteIdx(g) >= WriteIdx(t)

\* A receiver holds PriceUpdated(t) while the map already holds a later tick
\* of the same symbol.
C6_Witness ==
    \E i \in 1..Len(received[StateReceiver]) :
        LET it == received[StateReceiver][i] IN
        /\ it.tag = "Ok"
        /\ it.val.kind = "PriceUpdated"
        /\ get_price(it.val.tick.symbol) # it.val.tick
        /\ \E t \in Tasks : task[t].pc = 2

\* C7: get_price of a symbol gives the last tick written for it and "absent"
\* for a symbol never written; after update_price(t) has returned with no
\* later write for t's symbol, get_price gives t.
C7_LastWriteWins ==
    /\ \A s \in Symbols :
          get_price(s) =
             IF PriceWrites(s) = {} THEN NoTick ELSE writes[Last(PriceWrites(s))].tick
    /\ \A t \in Tasks :
          task[t].last.op = "update_price" =>
             LET c == task[t].last IN
             /\ Written(c.tick)
             /\ WriteIdx(c.tick) = Last(PriceWrites(c.tick.symbol)) =>
                   get_price(c.tick.symbol) = c.tick

\* update_price(t) has returned, t replaced an earlier tick of its symbol and
\* is what get_price gives; the other symbol was never written.
C7_Witness ==
    \E t \in Tasks :
        LET c == task[t].last IN
        /\ c.op = "update_price"
        /\ Cardinality(PriceWrites(c.tick.symbol)) >= 2
        /\ get_price(c.tick.symbol) = c.tick
        /\ \E s \in Symbols : get_price(s) = NoTick

\* C8: is_module_active of an id gives the last value set for it and false
\* for an id never set; a ModuleStateChanged event is published only once its
\* value is in the map write order, and a set_module_active that has returned
\* has published its event.
C8_ModuleActive ==
    /\ \A m \in ModuleIds :
          is_module_active(m) =
             IF ModuleWrites(m) = {} THEN FALSE
             ELSE writes[Last(ModuleWrites(m))].is_active
    /\ \A k \in 1..Len(sent) :
          sent[k].ev.kind = "ModuleStateChanged" =>
             \E i \in ModuleWrites(sent[k].ev.module_id) : EventOf(writes[i]) = sent[k].ev
    /\ \A t \in Tasks :
          task[t].last.op = "set_module_active" =>
             LET c == task[t].last IN
             /\ \E k \in 1..Len(sent) : sent[k].ev = EventOf(c)
             /\ (\E i \in ModuleWrites(c.module_id) :
                    writes[i] = c /\ i = Last(ModuleWrites(c.module_id))) =>
                   is_module_active(c.module_id) = c.is_active

\* set_module_active(id, false) has returned after an earlier
\* set_module_active(id, true), the id reads inactive, the receiver holds the
\* event, and the other id was never set.
C8_Witness ==
    \E t \in Tasks :
        LET c == task[t].last IN
        /\ c.op = "set_module_active"
        /\ ~c.is_active
        /\ \E i \in ModuleWrites(c.module_id) : writes[i].is_active /\ writes[i].serial < c.serial
        /\ ~is_module_active(c.module_id)
        /\ Count(EventOf(c), StateReceiver) = 1
        /\ \E m \in ModuleIds : m \notin DOMAIN active_modules

(* ---------------------- claims on StopLossModule ---------------------- *)
\* C9: a module is inactive until set_active(true) is called, its active flag
\* is true only while it is initialized and not shut down, and after shutdown
\* it is neither active nor initialized again.
C9_Lifecycle ==
    /\ module.is_active => (life.initialized /\ ~life.shut /\ module.state # None)
    /\ life.shut => (~module.is_active /\ module.state = None)

\* C10: an on_price_tick on a module whose active flag is false returns Ok,
\* takes no lock of AppState, emits no signal and leaves the module's fields,
\* the positions and the rest of AppState as they were.
C10_InactiveTickNoEffect ==
    [][(ticks' = ticks + 1 /\ ~module.is_active) =>
          /\ ret'.op = "on_price_tick"
          /\ ret'.result = "Ok"
          /\ UNCHANGED <<module, life, signals, posReads, positions, busVars, stateVars,
                         exchangeVars, sideVars>>]_vars

\* A module never initialized and inactive has answered Ok to a tick that
\* reaches the stop of one of the positions, and has emitted nothing.
C10_Witness ==
    /\ ret.op = "on_price_tick"
    /\ ret.result = "Ok"
    /\ ~module.is_active
    /\ ~life.initialized
    /\ \E i \in 1..Len(positions) :
          /\ positions[i].symbol = ret.tick.symbol
          /\ should_close(positions[i], ret.tick.price)
    /\ signals = <<>>
    /\ posReads = 0

\* The signals the step at hand has added.
TickSignals == SubSeq(signals', Len(signals) + 1, Len(signals'))

\* A tick on an active module that holds its state handle.
ActiveTick == ticks' = ticks + 1 /\ module.is_active /\ module.state # None

Raised(sigs, kind, position, price) ==
    \E j \in DOMAIN sigs : sigs[j] = Signal(kind, position, price)

\* One risk: the distance from the entry to the stop, nothing without a stop.
OneR(position) ==
    IF position.stop_loss.some
    THEN Abs(position.entry_price - position.stop_loss.v)
    ELSE 0

BreakevenReached(position, price) ==
    \/ position.side = "Long"
          /\ price >= position.entry_price + OneR(position) * module.breakeven_threshold
    \/ position.side = "Short"
          /\ price <= position.entry_price - OneR(position) * module.breakeven_threshold

\* C12: the breakeven check of a position is true exactly when, with one risk
\* the distance from entry to stop (zero without a stop), the price is at or
\* above entry plus threshold risks for a Long and at or below entry minus
\* threshold risks for a Short, the threshold being 1: a Long 100 with stop
\* 95 fires from 105 upward only, a Short 100 with stop 105 from 95 downward
\* only.
C12_Breakeven ==
    [][ActiveTick =>
          /\ module.breakeven_threshold = 1
          /\ \A i \in 1..Len(positions) :
                LET p == positions[i]  price == ret'.tick.price IN
                p.symbol = ret'.tick.symbol =>
                   /\ Raised(TickSignals, "breakeven", p, price) <=> BreakevenReached(p, price)
                   /\ (p.side = "Long" /\ p.entry_price = 100 /\ p.stop_loss = Some(95)) =>
                         (Raised(TickSignals, "breakeven", p, price) <=> price >= 105)
                   /\ (p.side = "Short" /\ p.entry_price = 100 /\ p.stop_loss = Some(105)) =>
                         (Raised(TickSignals, "breakeven", p, price) <=> price <= 95)]_vars

\* A Long position 100 with stop 95 raised breakeven at 105, and the tick just
\* handled, on its symbol at 104, raised nothing for it.
C12_Witness ==
    /\ ret.op = "on_price_tick"
    /\ module.is_active /\ module.state # None
    /\ \E i \in 1..Len(positions) :
          LET p == positions[i] IN
          /\ p.side = "Long" /\ p.entry_price = 100 /\ p.stop_loss = Some(95)
          /\ p.symbol = ret.tick.symbol
          /\ ret.tick.price = 104
          /\ Raised(signals, "breakeven", p, 105)
          /\ ~Raised(signals, "breakeven", p, 104)

StopReached(position, price) ==
    /\ position.stop_loss # NoneF
    /\ \/ position.side = "Long" /\ price <= position.stop_loss.v
       \/ position.side = "Short" /\ price >= position.stop_loss.v

\* C13: a tick on an active module that holds its state handle raises the stop
\* trigger of a position exactly when the position has the tick's symbol, has
\* a stop, and the price is at or below the stop of a Long or at or above the
\* stop of a Short, whether or not the breakeven check of that position fired.
C13_StopTrigger ==
    [][ActiveTick =>
          \A i \in 1..Len(positions) :
             LET p == positions[i]  price == ret'.tick.price IN
             Raised(TickSignals, "stop_loss", p, price) <=>
                (p.symbol = ret'.tick.symbol /\ StopReached(p, price))]_vars

\* The tick just handled raised both the breakeven and the stop of one
\* position, an earlier one raised a stop without a breakeven, and a position
\* of the tick's symbol without a stop raised no stop.
C13_Witness ==
    /\ ret.op = "on_price_tick"
    /\ module.is_active /\ module.state # None
    /\ \E i \in 1..Len(positions) :
          LET p == positions[i] IN
          /\ p.symbol = ret.tick.symbol
          /\ Raised(signals, "breakeven", p, ret.tick.price)
          /\ Raised(signals, "stop_loss", p, ret.tick.price)
    /\ \E i \in 1..Len(positions) : \E q \in TickPrices :
          /\ Raised(signals, "stop_loss", positions[i], q)
          /\ ~Raised(signals, "breakeven", positions[i], q)
    /\ \E i \in 1..Len(positions) :
          /\ positions[i].symbol = ret.tick.symbol
          /\ positions[i].stop_loss = NoneF
          /\ \A q \in TickPrices : ~Raised(signals, "stop_loss", positions[i], q)

(* ---------------------- claims on get_all_klines ---------------------- *)
Done == kl.pc = "done"

Windowed == kl.pc \notin {"idle", "called"}

\* The timestamps of a list of candles.
Stamps(ks) == {ks[i].timestamp : i \in 1..Len(ks)}

StrictlyIncreasing(ks) ==
    \A i \in 1..(Len(ks) - 1) : Lt(ks[i].timestamp, ks[i + 1].timestamp)

\* C14: the series get_all_klines returns has strictly increasing, hence
\* pairwise distinct, timestamps, whatever the requests returned, and sorting
\* and deduplicating it again leaves it as it is.
C14_StrictlyIncreasing ==
    Done =>
       /\ StrictlyIncreasing(kl.ret.val)
       /\ \A i, j \in 1..Len(kl.ret.val) :
             i # j => kl.ret.val[i].timestamp # kl.ret.val[j].timestamp
       /\ dedup_by_key(sort_by_key(kl.ret.val)) = kl.ret.val

\* The candles collected held a candle before an older one, two candles of
\* one timestamp that differ, and one whose timestamp did not parse; the
\* series returned has three candles and starts at timestamp 0.
C14_Witness ==
    /\ Done
    /\ \E i, j \in 1..Len(kl.all_klines) :
          i < j /\ Lt(kl.all_klines[j].timestamp, kl.all_klines[i].timestamp)
    /\ \E i, j \in 1..Len(kl.all_klines) :
          /\ kl.all_klines[i].timestamp = kl.all_klines[j].timestamp
          /\ kl.all_klines[i] # kl.all_klines[j]
    /\ \E r \in 1..Len(kl.server) :
          \E c \in 1..Len(kl.server[r].result.list) : ~kl.server[r].result.list[c].ok
    /\ Len(kl.ret.val) = 3
    /\ kl.ret.val[1].timestamp = Zero

\* The range from start to end is longer than twenty windows.
NeedsMoreThanCap ==
    Lt(Ms(20 * batch_duration(kl.args.interval).min, 0),
       Minus(current_end(kl.args), start_of(kl.args)))

RECURSIVE ListSizes(_)
ListSizes(n) ==
    IF n = 0 THEN 0 ELSE Len(ResponseTo(n).result.list) + ListSizes(n - 1)

C16_NoCandleBeforeStart ==
    /\ \A i \in 1..Len(kl.issued) :
          DOMAIN kl.issued[i] = {"idx", "limit", "end", "at"}
    /\ (Done /\ kl.args.start_time.some) =>
          \A i \in 1..Len(kl.ret.val) :
             ~Lt(kl.ret.val[i].timestamp, kl.args.start_time.v)

\* A call with an explicit start collected a candle one millisecond older
\* than the start and one at the start, and returned the latter only.
C16_Witness ==
    /\ Done
    /\ kl.args.start_time.some
    /\ Minus(kl.args.start_time.v, OneMs) \in Stamps(kl.all_klines)
    /\ Stamps(kl.ret.val) = {kl.args.start_time.v}

\* The group a request belongs to.
GroupOf(idx) == ((idx - 1) \div 5) + 1

\* C17: at most 5 kline requests are in flight; the requests go out in the
\* order of the windows, from the most recent to the oldest, in consecutive
\* groups of at most 5; a request of a later group is issued only when every
\* request of each earlier group has completed and at least 50 ms have passed
\* since.
C17_GroupsOfFive ==
    /\ Cardinality(kl.pending) <= 5
    /\ \A i \in 1..Len(kl.issued) : kl.issued[i].idx = i
    /\ \A i, j \in 1..Len(kl.issued) :
          i < j => Lt(kl.issued[j].end, kl.issued[i].end)
    /\ \A i \in kl.pending : \A j \in kl.pending : GroupOf(i) = GroupOf(j)
    /\ \A i, j \in 1..Len(kl.issued) :
          GroupOf(j) < GroupOf(i) =>
             /\ j \in kl.done
             /\ GroupOf(j) <= Len(kl.joined)
             /\ kl.issued[i].at >= kl.joined[GroupOf(j)] + 50

\* The second group of a call is in flight: two of its five requests have
\* completed, three have not.
C17_Witness ==
    /\ kl.pc = "join"
    /\ kl.chunk = 2
    /\ Cardinality(kl.pending) = 3
    /\ Cardinality(kl.done) = 7

\* A request that brought candles: the transport, the body and the parse
\* went well, retCode is 0 and the result is there.
Succeeded(resp) ==
    /\ resp.send = "Ok" /\ resp.body = "Ok" /\ resp.json = "Ok"
    /\ resp.ret_code = 0
    /\ resp.result.some

\* The timestamps the requests that went well brought, unparsable ones as 0,
\* without those before an explicit start.
ExpectedStamps ==
    {t \in UNION {{parse_timestamp(ResponseTo(i).result.list[c]) :
                       c \in 1..Len(ResponseTo(i).result.list)} :
                  i \in {x \in 1..Len(kl.issued) : Succeeded(ResponseTo(x))}} :
        kl.args.start_time.some => Le(kl.args.start_time.v, t)}

\* C18: get_all_klines never returns an error and asks for no window twice;
\* a request that failed (transport, body, parse, retCode other than 0, no
\* result) adds no candle and stops nothing: every window is requested, and
\* the series returned holds, once each and in order, exactly the timestamps
\* the requests that went well brought from the start on.
C18_FailuresSwallowed ==
    /\ kl.ret.tag \in {"None", "Ok"}
    /\ Done =>
          /\ kl.ret.tag = "Ok"
          /\ Len(kl.issued) = Len(kl.batch_ranges)
          /\ \A i \in 1..Len(kl.issued) : kl.issued[i].idx = i
          /\ kl.done = 1..Len(kl.batch_ranges)
          /\ Stamps(kl.ret.val) = ExpectedStamps
          /\ Len(kl.ret.val) = Cardinality(ExpectedStamps)
          /\ StrictlyIncreasing(kl.ret.val)

\* A call of three windows has ended: the exchange answered retCode 10001
\* with a candle in the envelope to the first and third request, and the
\* series returned holds the candle of the second request only.
C18_Witness ==
    /\ Done
    /\ Len(kl.batch_ranges) = 3
    /\ ResponseTo(1).ret_code # 0 /\ ResponseTo(1).result.list # <<>>
    /\ Succeeded(ResponseTo(2))
    /\ Len(kl.ret.val) = 1
    /\ kl.ret.val[1].timestamp \notin
          {parse_timestamp(ResponseTo(1).result.list[c]) :
              c \in 1..Len(ResponseTo(1).result.list)}

(* ------------------ claims on signing and single calls ---------------- *)
\* The calls that made a signature.
Signing(c) == cl.last[c].op \in {"sign", "auth_headers", "get_wallet_balance"}

WithHeaders(c) == cl.last[c].op \in {"auth_headers", "get_wallet_balance"}

\* What the exchange computes from the headers and the query string of a
\* request to verify its signature.
Verifies(headers, params, secret) ==
    headers["X-BAPI-SIGN"] =
       hmac_sha256_hex(secret,
                       headers["X-BAPI-TIMESTAMP"] \o headers["X-BAPI-API-KEY"] \o
                       headers["X-BAPI-RECV-WINDOW"] \o params)

\* C19: a signature is the MAC, under the secret, of timestamp, api_key,
\* recv_window and params put together in that order, so two sign calls with
\* the same five values give the same signature whichever client made them
\* and whenever; the headers auth_headers makes carry the timestamp that was
\* signed, read once, and the recv_window that was signed, which is 5000.
C19_Signature ==
    /\ \A c \in Clients :
          LET r == cl.last[c] IN
          /\ Signing(c) =>
                r.out = hmac_sha256_hex(cl.client[c].api_secret,
                           ToString(r.timestamp) \o cl.client[c].api_key \o
                           ToString(r.recv_window) \o r.params)
          /\ WithHeaders(c) =>
                /\ r.headers["X-BAPI-TIMESTAMP"] = ToString(r.timestamp)
                /\ r.headers["X-BAPI-RECV-WINDOW"] = "5000"
                /\ r.recv_window = 5000
                /\ r.headers["X-BAPI-API-KEY"] = cl.client[c].api_key
                /\ r.headers["X-BAPI-SIGN"] = r.out
                /\ Verifies(r.headers, r.params, cl.client[c].api_secret)
    /\ \A c, d \in Clients :
          (/\ Signing(c) /\ Signing(d)
           /\ cl.last[c].timestamp = cl.last[d].timestamp
           /\ cl.client[c] = cl.client[d]
           /\ cl.last[c].recv_window = cl.last[d].recv_window
           /\ cl.last[c].params = cl.last[d].params)
             => cl.last[c].out = cl.last[d].out

\* Two clients with the same key and secret: one made the headers of a
\* wallet request at time 1, the other was later asked to sign the same
\* parameters for time 1 and window 5000, and the signatures are the same.
C19_Witness ==
    /\ cl.client["c1"] = cl.client["c2"]
    /\ cl.clock = 2
    /\ cl.last["c1"].op = "get_wallet_balance"
    /\ cl.last["c1"].timestamp = 1
    /\ cl.last["c2"].op = "sign"
    /\ cl.last["c2"].timestamp = 1
    /\ cl.last["c2"].recv_window = 5000
    /\ cl.last["c2"].params = cl.last["c1"].params
    /\ cl.last["c1"].headers["X-BAPI-SIGN"] = cl.last["c2"].out

\* C20: a single-call operation returns an error without data at the first
\* failure: NetworkError when the request or the reading of the body fails,
\* ParseError when the body does not parse, ApiError with retMsg when the
\* envelope has a retCode other than 0, whatever the HTTP status; it returns
\* data only from an envelope with retCode 0.
C20_FirstFailure ==
    \A c \in Clients :
       LET r == cl.last[c].response  out == cl.last[c].ret IN
       cl.last[c].op \in SingleCalls =>
          /\ r.send = "Err" => (out.tag = "Err" /\ out.err = "NetworkError")
          /\ (r.send = "Ok" /\ r.body = "Err") =>
                (out.tag = "Err" /\ out.err = "NetworkError")
          /\ (r.send = "Ok" /\ r.body = "Ok" /\ r.json = "Err") =>
                (out.tag = "Err" /\ out.err = "ParseError")
          /\ (r.send = "Ok" /\ r.body = "Ok" /\ r.json = "Ok" /\ r.ret_code # 0) =>
                (out.tag = "Err" /\ out.err = "ApiError" /\ out.msg = r.ret_msg)
          /\ out.tag = "Err" => out.val = <<>>
          /\ out.tag = "Ok" =>
                (r.send = "Ok" /\ r.body = "Ok" /\ r.json = "Ok" /\ r.ret_code = 0)
          /\ out.tag \in {"Ok", "Err"}

\* get_ticker has returned ApiError("params error") for an envelope of
\* status 200 that holds retCode 10001 and a list, and get_wallet_balance has
\* returned data for an envelope of status 500 with retCode 0.
C20_Witness ==
    /\ cl.last["c1"].op = "get_ticker"
    /\ cl.last["c1"].response.status = 200
    /\ cl.last["c1"].response.result.list # <<>>
    /\ cl.last["c1"].ret = Err("ApiError", "params error")
    /\ cl.last["c2"].op = "get_wallet_balance"
    /\ cl.last["c2"].response.status = 500
    /\ cl.last["c2"].ret.tag = "Ok"
    /\ cl.last["c2"].ret.val # <<>>

(* ------------------------ claims on SecureVault ----------------------- *)
\* C21: retrieve(id) returns exactly the data of the last store(id, ..) as
\* long as no remove(id) or clear came after it, and NotFound for an id never
\* stored, removed or cleared; remove(id) returns true exactly when id was
\* stored, so that a remove right after a remove of the same id returns false.
C21_RoundTrip ==
    /\ \A id \in VaultIds :
          retrieve(vault.v, id) =
             IF id \in DOMAIN vault.clear THEN VaultRet("Ok", vault.clear[id])
             ELSE VaultRet("NotFound", id)
    /\ vault.last.op = "retrieve" =>
          vault.last.ret = retrieve(vault.v, vault.last.id)
    /\ vault.last.op = "remove" =>
          /\ vault.last.ret.val = "true" <=> vault.last.was_present
          /\ vault.last.id \notin DOMAIN vault.clear
          /\ retrieve(vault.v, vault.last.id).tag = "NotFound"
    /\ vault.last.op = "store" => vault.last.ret.tag = "Ok"

\* A stored id has been read back with the data stored last under it, while
\* the other id is not stored and is not found.
C21_Witness ==
    /\ vault.last.op = "retrieve"
    /\ vault.last.ret = VaultRet("Ok", "xyz")
    /\ \E other \in VaultIds \ {vault.last.id} :
          retrieve(vault.v, other).tag = "NotFound"

(* --------------------- claims on AppState's locks --------------------- *)
\* The next step of a task is enabled.
CanStep(t) ==
    locks.at[t].pc = "acquire" =>
        can_lock(locks, field_of(locks.at[t].call.op), mode_of(locks.at[t].call.op))

\* C22: no task holds two field locks at once; a task of AppState that waits
\* for a lock waits only for another task of AppState that is inside its own
\* guard (and so can go on), never for the tick task, which holds the read
\* lock of positions; the tick task never waits; so some task that is inside
\* a call can always take a step.
C22_NoDeadlock ==
    /\ \A t \in LockTasks : Cardinality(HeldBy(locks, t)) <= 1
    /\ \A t \in Tasks :
          \/ CanStep(t)
          \/ \E u \in Tasks \ {t} :
                /\ locks.at[u].pc = "held"
                /\ field_of(locks.at[t].call.op) \in HeldBy(locks, u)
    /\ CanStep(ModuleTask)
    /\ ModuleHolds(locks) => HeldBy(locks, ModuleTask) = {"positions"}

\* A writer and a reader of AppState have each begun and returned while the
\* tick task was holding the read lock of positions.
C22_Witness ==
    /\ ModuleHolds(locks)
    /\ \E t \in Tasks, u \in Tasks :
          /\ t # u
          /\ locks.at[t].pc = "idle" /\ locks.at[t].under
          /\ locks.at[t].call.op = "update_price"
          /\ locks.at[u].pc = "idle" /\ locks.at[u].under
          /\ locks.at[u].call.op = "get_price"
          /\ locks.at[u].call.tick.price = 100

(* ----------------- claims on the callbacks of the module -------------- *)
\* The conditions of a tick a position satisfies: which signals are due.
Due(tick) ==
    {<<i, kind>> \in (1..Len(positions)) \X {"breakeven", "stop_loss"} :
        LET p == positions[i] IN
        /\ p.symbol = tick.symbol
        /\ \/ kind = "breakeven" /\ module.auto_breakeven /\ BreakevenReached(p, tick.price)
           \/ kind = "stop_loss" /\ StopReached(p, tick.price)}

\* C23: what a tick raises is settled by the tick, the positions and the
\* module's fields alone, whatever was raised before: on an active module
\* with its state handle exactly the signals due, each once, on any other
\* module none; and the tick changes neither the module nor any position.
C23_Memoryless ==
    [][ticks' = ticks + 1 =>
          /\ module' = module
          /\ positions' = positions
          /\ IF ActiveTick
             THEN /\ \A i \in 1..Len(positions), kind \in {"breakeven", "stop_loss"} :
                        Raised(TickSignals, kind, positions[i], ret'.tick.price)
                           <=> <<i, kind>> \in Due(ret'.tick)
                  /\ Len(TickSignals) = Cardinality(Due(ret'.tick))
             ELSE TickSignals = <<>>]_vars

\* Two ticks at the same price have each raised the breakeven and the stop
\* of the same position.
C23_Witness ==
    /\ ret.op = "on_price_tick"
    /\ ticks = 2
    /\ \E i \in 1..Len(positions) : \E q \in TickPrices :
          \A kind \in {"breakeven", "stop_loss"} :
             Cardinality({j \in DOMAIN signals :
                            signals[j] = Signal(kind, positions[i], q)}) = 2

Callbacks == {"on_price_tick", "on_balance_change", "on_position_opened", "on_position_closed"}

\* C24: a callback on a module whose active flag is false has no effect: it
\* returns Ok, emits no signal ("position tracked" and "position closed"
\* included) and leaves the module, the positions and AppState as they were.
C24_Gated ==
    [][(~module.is_active /\ ret'.op \in Callbacks) =>
          /\ ret'.result = "Ok"
          /\ UNCHANGED <<module, life, signals, posReads, positions, busVars, stateVars,
                         exchangeVars, sideVars>>]_vars

(* ------------------------ claims on the commands ---------------------- *)
LastCmd == cmd.at[cmd.last]

\* C25: once toggle_module(id, a) has returned, is_module_active(id) of
\* AppState is a, a ModuleStateChanged event for (id, a) has been published,
\* and list_modules reports a for id.
C25_ToggleReachesState ==
    (cmd.last # "" /\ LastCmd.op = "toggle_module") =>
        /\ is_module_active(LastCmd.module_id) = LastCmd.active
        /\ \E k \in 1..Len(sent) :
              /\ sent[k].ev.kind = "ModuleStateChanged"
              /\ sent[k].ev.module_id = LastCmd.module_id
              /\ sent[k].ev.is_active = LastCmd.active
        /\ get_or_false(cmd.module_states, LastCmd.module_id) = LastCmd.active

\* The part of C25 on the commands' own map: a module never toggled is listed
\* inactive, a toggled one as it was toggled last, and toggle_module returns
\* the flag it was given.
C25_Listed ==
    /\ \A id \in ListedIds :
          get_or_false(cmd.module_states, id) =
             (id \in DOMAIN cmd.module_states /\ cmd.module_states[id])
    /\ (cmd.last # "" /\ LastCmd.op = "toggle_module") =>
          /\ LastCmd.ret = CmdRet("Ok", ConnectionState_default, LastCmd.active, "")
          /\ get_or_false(cmd.module_states, LastCmd.module_id) = LastCmd.active
    /\ (cmd.last # "" /\ LastCmd.op = "list_modules") =>
          \A id \in ListedIds : cmd.listed[id] = get_or_false(cmd.module_states, id)

Quiet == \A t \in Tasks : cmd.at[t].pc = "idle"

\* C29: once every connect_exchange and disconnect_exchange that was started
\* has returned, the status says connected exactly when a client is stored,
\* so that a get_wallet_balance that returns then fails with "no connection"
\* only under a status that says not connected.
C29_Consistent ==
    Quiet =>
        /\ cmd.status.is_connected <=> cmd.client.some
        /\ \A t \in Tasks :
              (cmd.at[t].op = "get_wallet_balance" /\ cmd.last = t
               /\ cmd.at[t].ret.msg = "no connection") => ~cmd.at[t].ret.status.is_connected

\* The part of C29 on a failed connection test: the call returns an error and
\* writes neither the client nor the status.
C29_FailedTestWritesNothing ==
    [][\A t \in Tasks :
          (cmd.at[t].pc = "idle" /\ cmd'.at[t] # cmd.at[t]
           /\ cmd'.at[t].op = "connect_exchange" /\ cmd'.at[t].pc = "idle") =>
             /\ cmd'.at[t].ret.tag = "Err"
             /\ cmd'.client = cmd.client
             /\ cmd'.status = cmd.status]_vars

(* ------------------- more claims on get_all_klines -------------------- *)
\* The candles the request of window i brought, as the exchange sent them.
Brought(i) == IF Succeeded(ResponseTo(i)) THEN ResponseTo(i).result.list ELSE <<>>

\* The places (window, place in its list) of the candles of a timestamp.
Copies(ts) ==
    UNION {{<<i, c>> : c \in {d \in 1..Len(Brought(i)) : parse_timestamp(Brought(i)[d]) = ts}} :
              i \in 1..Len(kl.batch_ranges)}

\* The first of them in the order of the windows.
FirstCopy(ts) ==
    CHOOSE f \in Copies(ts) :
        \A g \in Copies(ts) : f[1] < g[1] \/ (f[1] = g[1] /\ f[2] <= g[2])

\* C26: of the candles of one timestamp the windows brought, the series
\* returned holds exactly one, with the values it was sent with, and it is the
\* copy of the window requested first, the one with the latest end, whatever
\* the order in which the requests completed.
C26_FirstCopyKept ==
    /\ Windowed =>
          \A i \in 1..Len(kl.batch_ranges), j \in 1..Len(kl.batch_ranges) :
             i < j => Lt(kl.batch_ranges[j].end, kl.batch_ranges[i].end)
    /\ Done =>
          \A n \in 1..Len(kl.ret.val) :
             LET ts == kl.ret.val[n].timestamp IN
             /\ Copies(ts) # {}
             /\ kl.ret.val[n] =
                   Kline(ts, Brought(FirstCopy(ts)[1])[FirstCopy(ts)[2]].close)
             /\ Cardinality({m \in 1..Len(kl.ret.val) : kl.ret.val[m].timestamp = ts}) = 1

\* The first two windows brought a candle of the same timestamp with closes
\* 2 and 1, the request of the second window completed while the first was
\* in flight, and the series returned holds the candle with close 2.
C26_Witness ==
    /\ Done
    /\ Len(kl.batch_ranges) >= 2
    /\ kl.second_first
    /\ \E c \in 1..Len(Brought(1)), d \in 1..Len(Brought(2)) :
          /\ Brought(1)[c].ok /\ Brought(2)[d].ok
          /\ Brought(1)[c].v = Brought(2)[d].v
          /\ Brought(1)[c].close = 2 /\ Brought(2)[d].close = 1
          /\ \E n \in 1..Len(kl.ret.val) : kl.ret.val[n] = Kline(Brought(1)[c].v, 2)

(* ---------------------- more claims on AppState ----------------------- *)
RECURSIVE TicksOf(_)
TicksOf(seq) == IF seq = <<>> THEN <<>> ELSE <<Head(seq).tick>> \o TicksOf(Tail(seq))

\* The ticks of a symbol in the order they were written to the price map,
\* and in the order their PriceUpdated events were published.
WrittenTicks(symbol) ==
    TicksOf(SelectSeq(writes, LAMBDA c : c.op = "update_price" /\ c.tick.symbol = symbol))

RECURSIVE EventTicks(_, _)
EventTicks(k, symbol) ==
    IF k = 0 THEN <<>>
    ELSE EventTicks(k - 1, symbol) \o
         (IF sent[k].ev.kind = "PriceUpdated" /\ sent[k].ev.tick.symbol = symbol
          THEN <<sent[k].ev.tick>> ELSE <<>>)

\* C27: once every call has returned, the PriceUpdated events of a symbol are
\* on the bus in the order of the writes to the price map, and get_price of
\* the symbol returns the tick of the last of them.
C27_EventOrder ==
    (\A t \in Tasks : task[t].pc = 0) =>
        \A symbol \in Symbols :
           LET events == EventTicks(Len(sent), symbol) IN
           /\ events = WrittenTicks(symbol)
           /\ events # <<>> => get_price(symbol) = events[Len(events)]

\* An exchange that holds a candle at every multiple of the interval and
\* answers a request with the limit most recent candles not after its end:
\* the number (timestamp / interval) of the newest and of the oldest candle
\* of the answer to window j, and of the first and last candle of the range
\* of the call.
CandleMinutes == interval_ms(kl.args.interval).min

NewestOf(j) == kl.batch_ranges[j].end.min \div CandleMinutes

OldestOf(j) == NewestOf(j) - (limit - 1)

FirstInRange ==
    LET start == start_of(kl.args) IN
    IF start.ms = 0 /\ start.min % CandleMinutes = 0
    THEN start.min \div CandleMinutes
    ELSE (start.min \div CandleMinutes) + 1

LastInRange == current_end(kl.args).min \div CandleMinutes

\* The answers to the windows hold every candle of the range.
Covered ==
    LET n == Len(kl.batch_ranges) IN
    FirstInRange <= LastInRange =>
        /\ n >= 1
        /\ NewestOf(1) = LastInRange
        /\ \A j \in 1..(n - 1) : NewestOf(j + 1) >= OldestOf(j) - 1
        /\ OldestOf(n) <= FirstInRange

\* How far the end of the range is past the last candle, in milliseconds.
EndOffset ==
    (current_end(kl.args).min % CandleMinutes) * MsPerMinute + current_end(kl.args).ms

\* C28: when the range needs at most 20 windows, the windows leave no gap:
\* on an exchange with a candle at every multiple of the interval, whose
\* answer to a request is the 1000 most recent candles not after its end,
\* the answers hold every candle from start to end, so that the series
\* returned has no two neighbours further apart than the interval, also when
\* the end is itself a multiple of the interval.
C28_NoGap == (Windowed /\ ~NeedsMoreThanCap) => Covered

\* The part of C28 that holds: no gap when the end of the range is at least
\* as many milliseconds past a candle as there are windows.
C28_NoGapPastCandle ==
    (Windowed /\ ~NeedsMoreThanCap /\ EndOffset >= Len(kl.batch_ranges)) => Covered

\* C30: a tick on an active module that holds no state handle returns
\* InitializationFailed, reads no position, emits nothing and leaves the
\* module as it was; shutdown clears the handle and keeps the active flag;
\* and a tick on an active module that holds its handle, whatever failed
\* before, returns Ok and reads the positions once.
C30_NoStateHandle ==
    [][/\ (ticks' = ticks + 1 /\ module.is_active /\ module.state = None) =>
             /\ ret' = Ret("on_price_tick", "InitializationFailed", ret'.tick)
             /\ UNCHANGED <<module, life, signals, posReads, positions, busVars, stateVars>>
       /\ ret'.op = "shutdown" =>
             /\ module'.state = None
             /\ module'.is_active = module.is_active
       /\ ActiveTick =>
             /\ ret' = Ret("on_price_tick", "Ok", ret'.tick)
             /\ posReads' = posReads + 1
             /\ UNCHANGED <<module, life, positions>>]_vars

\* The first tick failed on the active module after its shutdown, the module
\* was initialized again, and the second tick read the positions and raised
\* the stop of one.
C30_Witness ==
    /\ ticks = 2
    /\ posReads = 1
    /\ life.shut /\ life.recovered
    /\ module.is_active /\ module.state # None
    /\ ret.op = "on_price_tick" /\ ret.result = "Ok"
    /\ \E i \in 1..Len(positions) :
          Raised(signals, "stop_loss", positions[i], ret.tick.price)

=============================================================================
